---- MODULE Spec2Model ----
(***************************************************************************)
(* Model of the analysis-and-deduplication pipeline of Advanced Crypto     *)
(* Analytics V3.0 (main.py, main_scheduled.py, analyzers.py,               *)
(* alert_system.py, data_manager.py, utils.py).                            *)
(*                                                                         *)
(* Units.  Oscillator values (wt1, wt2, K, D, strength) are integers in    *)
(* hundredths: 6000 stands for 60.00.  Wall-clock time and record          *)
(* timestamps are integers in seconds.  Coin prices are integers in        *)
(* ten-thousandths of a dollar, volumes in units of 100 000 dollars.       *)
(*                                                                         *)
(* The module holds several specifications over one set of variables:      *)
(*   Spec        the looping pipeline: analysis cycles, process_signals,   *)
(*               the dedup cache, its file, the clock, process restarts    *)
(*   SpecDecide  TrendPulseAnalyzer.analyze's decision and the StochRSI    *)
(*               confirmation, applied to inputs drawn from bounded sets   *)
(*   SpecKey     DeduplicationManager used directly: mark_sent for one     *)
(*               signal, then is_duplicate for another after a delay       *)
(*   SpecHA      HeikinAshiConverter.convert on bounded candle sequences   *)
(*   SpecFetch   the exchange resolver, the multi-timeframe fetch and     *)
(*               analyze_coin's use of it                                  *)
(*   SpecRetry   fetch_ohlcv_with_retry, one pass of its loop per step     *)
(*   SpecReplay  mark_sent called twice for one signal                     *)
(*   SpecLoad    load_cache at startup on files of several ages            *)
(*   SpecBatch   one analysis cycle with its thread pool and               *)
(*               process_signals                                           *)
(*   SpecTrend   TrendPulseAnalyzer.analyze on whole frames, evaluated     *)
(*               repeatedly                                                *)
(*   SpecFrame   one frame analysed for each tier, with its last candle    *)
(*               replaced, and through analyze_coin                        *)
(*   SpecStoch   StochRSICalculator.calculate on 2h closes, and the        *)
(*               divisors of both indicators                               *)
(*   SpecOpen    one iteration of process_signals on a cache whose record  *)
(*               for the candidate may have no readable timestamp          *)
(*   SpecSource  get_multi_timeframe_data over exchanges that differ in    *)
(*               what they serve                                           *)
(*   SpecSched   the scheduled mode: load_blocked_coins, analyze_coin and  *)
(*               run of main_scheduled.py                                  *)
(***************************************************************************)
EXTENDS Integers, Sequences, FiniteSets, TLC

VARIABLES
    now,          \* datetime.utcnow(), seconds
    cache,        \* DeduplicationManager.cache: fingerprint -> record
    disk,         \* contents of deduplication_cache.json
    others,       \* records in cache for fingerprints outside the modelled ones
    diskOthers,   \* the same count in the file
    phase,        \* "idle" between cycles, "alerting" inside process_signals
    results,      \* process_signals' results list
    idx,          \* 1-based position of the for loop in results
    alerts_sent,  \* process_signals' counter
    outcome,      \* what the latest loop iteration did: dup, sent, failed
    sentAt,       \* per fingerprint: time of this process's latest successful dispatch
    arg,          \* input of the function-level specifications
    ret,          \* their output
    step          \* their position

vars == <<now, cache, disk, others, diskOthers, phase, results, idx,
          alerts_sent, outcome, sentAt, arg, ret, step>>

pipeVars == <<now, cache, disk, others, diskOthers, phase, results, idx,
              alerts_sent, outcome, sentAt>>

funVars == <<arg, ret, step>>

None == "None"

Abs(x) == IF x < 0 THEN -x ELSE x

Max2(a, b) == IF a >= b THEN a ELSE b

Min2(a, b) == IF a <= b THEN a ELSE b

(***************************************************************************)
(* TrendPulseAnalyzer.analyze, from the closed-candle read to the result.  *)
(***************************************************************************)

\* the +/-60 extreme levels, in hundredths
OversoldLevel == -6000

OverboughtLevel == 6000

\* an oversold level at -40
oversold_loose(wt1_current, wt2_current, tier_type) ==
    (wt1_current <= -4000) /\ (wt2_current <= -4000)

\* a stricter oversold level for the HIGH_RISK tier
oversold_tiered(wt1_current, wt2_current, tier_type) ==
    IF tier_type = "HIGH_RISK"
    THEN (wt1_current <= -8000) /\ (wt2_current <= -8000)
    ELSE (wt1_current <= OversoldLevel) /\ (wt2_current <= OversoldLevel)

\* both tier branches of the source, kept apart as the source has them
oversold(wt1_current, wt2_current, tier_type) ==
    IF tier_type = "HIGH_RISK"
    THEN (wt1_current <= OversoldLevel) /\ (wt2_current <= OversoldLevel)
    ELSE (wt1_current <= OversoldLevel) /\ (wt2_current <= OversoldLevel)

overbought(wt1_current, wt2_current, tier_type) ==
    IF tier_type = "HIGH_RISK"
    THEN (wt1_current >= OverboughtLevel) /\ (wt2_current >= OverboughtLevel)
    ELSE (wt1_current >= OverboughtLevel) /\ (wt2_current >= OverboughtLevel)

bullish_cross_strict(wt1_previous, wt2_previous, wt1_current, wt2_current) ==
    (wt1_previous < wt2_previous) /\ (wt1_current > wt2_current)

bullish_cross(wt1_previous, wt2_previous, wt1_current, wt2_current) ==
    (wt1_previous <= wt2_previous) /\ (wt1_current > wt2_current)

\* the bearish test with the comparison of the bullish one on the current
\* candle
bearish_cross_copied(wt1_previous, wt2_previous, wt1_current, wt2_current) ==
    (wt1_previous >= wt2_previous) /\ (wt1_current > wt2_current)

bearish_cross(wt1_previous, wt2_previous, wt1_current, wt2_current) ==
    (wt1_previous >= wt2_previous) /\ (wt1_current < wt2_current)

no_signal ==
    [has_signal |-> FALSE, signal_type |-> "none", wt1 |-> 0, wt2 |-> 0,
     strength |-> 0, cross_type |-> "none"]

analyze(wt1_previous, wt2_previous, wt1_current, wt2_current, tier_type) ==
    LET bull == bullish_cross(wt1_previous, wt2_previous, wt1_current, wt2_current)
        bear == bearish_cross(wt1_previous, wt2_previous, wt1_current, wt2_current)
        os   == oversold(wt1_current, wt2_current, tier_type)
        ob   == overbought(wt1_current, wt2_current, tier_type)
        signal_type == IF bull /\ os THEN "BUY"
                       ELSE IF bear /\ ob THEN "SELL" ELSE "none"
    IN  [has_signal  |-> signal_type # "none",
         signal_type |-> signal_type,
         wt1         |-> wt1_current,
         wt2         |-> wt2_current,
         strength    |-> Abs(wt1_current) + Abs(wt2_current),
         cross_type  |-> IF bull THEN "bullish"
                         ELSE IF bear THEN "bearish" ELSE "none"]

(***************************************************************************)
(* The StochRSI confirmation of analyze_coin.                              *)
(***************************************************************************)

StochOversold == 2000

StochOverbought == 8000

confirm_or(signal_type, k_value, d_value) ==
    IF signal_type = "BUY" THEN k_value < StochOversold \/ d_value < StochOversold
    ELSE IF signal_type = "SELL"
         THEN k_value > StochOverbought \/ d_value > StochOverbought
         ELSE FALSE

\* main.py: confirmed stays False unless the BUY or the SELL branch sets it
confirm(signal_type, k_value, d_value) ==
    IF signal_type = "BUY" THEN k_value < StochOversold /\ d_value < StochOversold
    ELSE IF signal_type = "SELL"
         THEN k_value > StochOverbought /\ d_value > StochOverbought
         ELSE FALSE

\* main_scheduled.py: every type other than BUY takes the SELL branch
confirm_scheduled(signal_type, k, d) ==
    IF signal_type = "BUY" THEN k < StochOversold /\ d < StochOversold
    ELSE k > StochOverbought /\ d > StochOverbought

(***************************************************************************)
(* DeduplicationManager (alert_system.py).  The cache is a dict: a         *)
(* function whose domain is the set of fingerprints present.               *)
(***************************************************************************)

EmptyDict == [x \in {} |-> None]

Put(d, k, v) == [x \in (DOMAIN d) \cup {k} |-> IF x = k THEN v ELSE d[x]]

Del(d, k) == [x \in (DOMAIN d) \ {k} |-> d[x]]

\* Python's round(x, 1) on a value in hundredths: to the nearest tenth, a
\* tie to the even tenth.  \div floors, so v = 10*q + r with r in 0..9.
Round1(v) ==
    LET q == v \div 10
        r == v % 10
    IN  IF r < 5 THEN 10 * q
        ELSE IF r > 5 THEN 10 * (q + 1)
        ELSE IF q % 2 = 0 THEN 10 * q ELSE 10 * (q + 1)

\* strftime('%Y%m%d_%H%M'): the timestamp cut to its minute
minute_str(candle_ts) == candle_ts \div 60

\* int(current_price * 1000) on a price in ten-thousandths of a dollar
price_bucket(coin) == coin.current_price \div 10

\* int(total_volume / 1000000) on a volume in units of 100 000 dollars
volume_bucket(coin) == coin.total_volume \div 10

create_cache_key_unrounded(coin, signal) ==
    <<coin.symbol, signal.signal_type, minute_str(signal.candle_timestamp),
      signal.wt1, signal.wt2,
      signal.stoch_rsi_k, signal.stoch_rsi_d,
      price_bucket(coin), volume_bucket(coin)>>

create_cache_key_clocked(coin, signal) ==
    <<coin.symbol, signal.signal_type, now>>

create_cache_key_no_candle(coin, signal) ==
    <<coin.symbol, signal.signal_type, minute_str(0),
      Round1(signal.wt1), Round1(signal.wt2),
      Round1(signal.stoch_rsi_k), Round1(signal.stoch_rsi_d),
      price_bucket(coin), volume_bucket(coin)>>

\* The md5 of the joined components is taken as injective on them: the
\* fingerprint is the tuple of the formatted components.
create_cache_key(coin, signal) ==
    <<coin.symbol, signal.signal_type, minute_str(signal.candle_timestamp),
      Round1(signal.wt1), Round1(signal.wt2),
      Round1(signal.stoch_rsi_k), Round1(signal.stoch_rsi_d),
      price_bucket(coin), volume_bucket(coin)>>

Hour == 60 * 60

VeryStrong == 12000

Strong == 10000

dedup_window_four_hours(strength) == 4 * Hour

dedup_window(strength) ==
    IF strength > VeryStrong THEN 6 * Hour
    ELSE IF strength > Strong THEN 8 * Hour
    ELSE 12 * Hour

is_duplicate_never(c, coin, signal, t) == [dup |-> FALSE, cache |-> c]

\* a lookup that answers but never deletes
is_duplicate_keeps_expired(c, coin, signal, t) ==
    LET cache_key == create_cache_key(coin, signal)
    IN  [dup   |-> /\ cache_key \in DOMAIN c
                   /\ t - c[cache_key].timestamp < dedup_window(signal.strength),
         cache |-> c]

\* returns the answer and the cache as the lookup leaves it
is_duplicate(c, coin, signal, t) ==
    LET cache_key == create_cache_key(coin, signal)
    IN  IF cache_key \in DOMAIN c
        THEN LET time_diff == t - c[cache_key].timestamp
             IN  IF time_diff < dedup_window(signal.strength)
                 THEN [dup |-> TRUE, cache |-> c]
                 ELSE [dup |-> FALSE, cache |-> Del(c, cache_key)]
        ELSE [dup |-> FALSE, cache |-> c]

SaveEvery == 10

cache_record(coin, signal, t) ==
    [symbol      |-> coin.symbol,
     signal_type |-> signal.signal_type,
     timestamp   |-> t,
     wt1         |-> signal.wt1,
     wt2         |-> signal.wt2,
     stoch_k     |-> signal.stoch_rsi_k,
     stoch_d     |-> signal.stoch_rsi_d,
     price       |-> coin.current_price]

\* st = [cache, others, disk, diskOthers]; the file is rewritten only when
\* the number of records in memory is a multiple of SaveEvery
mark_sent(st, coin, signal, t) ==
    LET c == Put(st.cache, create_cache_key(coin, signal),
                 cache_record(coin, signal, t))
    IN  IF (Cardinality(DOMAIN c) + st.others) % SaveEvery = 0
        THEN [st EXCEPT !.cache = c, !.disk = c, !.diskOthers = st.others]
        ELSE [st EXCEPT !.cache = c]

load_cache_day(file, t) ==
    LET keep == {k \in DOMAIN file : file[k].timestamp > t - 24 * Hour}
    IN  [k \in keep |-> file[k]]

LoadCutoff == 48 * Hour

\* isoformat / fromisoformat give back the timestamp written
load_cache(file, t) ==
    LET keep == {k \in DOMAIN file : file[k].timestamp > t - LoadCutoff}
    IN  [k \in keep |-> file[k]]

(***************************************************************************)
(* analyze_coin (main.py).  The market data of one coin in one cycle is an *)
(* observation md: whether the two timeframes were fetched, whether the    *)
(* Heikin-Ashi conversion gave a frame, whether the 1h frame is long       *)
(* enough for TrendPulse, the oscillator pair at the two closed candles,   *)
(* whether StochRSI gave a result, its K and D, and the closed candle's    *)
(* timestamp.  A result is a one-element list, None the empty list.        *)
(***************************************************************************)

trendpulse(md, tier_type) ==
    IF md.enough
    THEN analyze(md.wt1_previous, md.wt2_previous,
                 md.wt1_current, md.wt2_current, tier_type)
    ELSE no_signal

confirmed_result(coin, tier_type, md, tp) ==
    <<[coin   |-> coin,
       signal |-> [signal_type      |-> tp.signal_type,
                   wt1              |-> tp.wt1,
                   wt2              |-> tp.wt2,
                   strength         |-> tp.strength,
                   stoch_rsi_k      |-> md.k,
                   stoch_rsi_d      |-> md.d,
                   candle_timestamp |-> md.candle_ts],
       tier   |-> tier_type,
       md     |-> md]>>

analyze_coin_unconfirmed(coin, tier_type, md) ==
    LET tp == trendpulse(md, tier_type)
    IN  IF md.data /\ md.ha /\ tp.has_signal /\ md.stoch
        THEN confirmed_result(coin, tier_type, md, tp)
        ELSE <<>>

analyze_coin(coin, tier_type, md) ==
    IF ~md.data THEN <<>>
    ELSE IF ~md.ha THEN <<>>
    ELSE LET tp == trendpulse(md, tier_type)
         IN  IF ~tp.has_signal THEN <<>>
             ELSE IF ~md.stoch THEN <<>>
             ELSE IF ~confirm(tp.signal_type, md.k, md.d) THEN <<>>
             ELSE confirmed_result(coin, tier_type, md, tp)

(***************************************************************************)
(* The pipeline: two coins, one per tier, and the observations a cycle may *)
(* draw for each.                                                          *)
(***************************************************************************)

high_risk_coin == [symbol |-> "AAA", current_price |-> 12345, total_volume |-> 150]

standard_coin == [symbol |-> "BBB", current_price |-> 250000, total_volume |-> 900]

Obs(data, ha, enough, p1, p2, c1, c2, stoch, k, d, ts) ==
    [data |-> data, ha |-> ha, enough |-> enough,
     wt1_previous |-> p1, wt2_previous |-> p2,
     wt1_current |-> c1, wt2_current |-> c2,
     stoch |-> stoch, k |-> k, d |-> d, candle_ts |-> ts]

\* what either coin's data may be when nothing is confirmed
Unconfirmed ==
    { Obs(FALSE, FALSE, FALSE, 0, 0, 0, 0, FALSE, 0, 0, 0),               \* no data
      Obs(TRUE, FALSE, FALSE, 0, 0, 0, 0, FALSE, 0, 0, 0),                \* no HA frame
      Obs(TRUE, TRUE, FALSE, -6500, -5500, -6200, -6300, TRUE, 1500, 1200, 0), \* short frame
      Obs(TRUE, TRUE, TRUE, -6500, -6200, -5800, -6100, TRUE, 1500, 1200, 0),  \* cross, not oversold
      Obs(TRUE, TRUE, TRUE, -6200, -6500, -6250, -6300, TRUE, 1500, 1200, 0),  \* oversold, no cross
      Obs(TRUE, TRUE, TRUE, -6500, -5500, -6200, -6300, FALSE, 0, 0, 0),       \* BUY, no StochRSI
      Obs(TRUE, TRUE, TRUE, -6500, -5500, -6200, -6300, TRUE, 1500, 2500, 0),  \* BUY, D too high
      Obs(TRUE, TRUE, TRUE, 6500, 5500, 6200, 6300, TRUE, 8500, 7900, 0) }     \* SELL, D too low

\* the HIGH_RISK coin may also show a BUY that StochRSI confirms
HighRiskObservations ==
    Unconfirmed \cup
    { Obs(TRUE, TRUE, TRUE, -6500, -5500, -6200, -6300, TRUE, 1500, 1200, 0) }

\* the STANDARD coin may also show a SELL that StochRSI confirms
StandardObservations ==
    Unconfirmed \cup
    { Obs(TRUE, TRUE, TRUE, 6500, 5500, 6200, 6300, TRUE, 8500, 9000, 0) }

MaxHours == 7

MaxSleeps == 1

Cooldown == 30

Horizon == MaxHours * Hour

store == [cache |-> cache, others |-> others, disk |-> disk, diskOthers |-> diskOthers]

InitPipe ==
    /\ now = 0
    /\ cache = EmptyDict
    /\ disk = EmptyDict
    /\ \E n \in {0, SaveEvery - 1} :
          /\ others = n
          /\ diskOthers = IF n = 0 THEN 0 ELSE SaveEvery
    /\ phase = "idle"
    /\ results = <<>>
    /\ idx = 1
    /\ alerts_sent = 0
    /\ outcome = "none"
    /\ sentAt = EmptyDict

IdleFun ==
    /\ arg = None
    /\ ret = None
    /\ step = "off"

Init == InitPipe /\ IdleFun

\* execute_analysis_cycle up to the call of process_signals: the results of
\* the HIGH_RISK coin, then those of the STANDARD coin
StartCycle ==
    /\ phase = "idle"
    /\ now % Hour < MaxSleeps * Cooldown
    /\ \E mdH \in HighRiskObservations, mdS \in StandardObservations :
          results' = analyze_coin(high_risk_coin, "HIGH_RISK", mdH)
                     \o analyze_coin(standard_coin, "STANDARD", mdS)
    /\ phase' = "alerting"
    /\ idx' = 1
    /\ alerts_sent' = 0
    /\ outcome' = "none"
    /\ UNCHANGED <<now, cache, disk, others, diskOthers, sentAt>>

\* an iteration on a duplicate that rewrites the record with the present time
SkipDuplicateRefreshes ==
    /\ phase = "alerting"
    /\ idx <= Len(results)
    /\ LET r == results[idx]
           chk == is_duplicate(cache, r.coin, r.signal, now)
       IN  /\ chk.dup
           /\ cache' = Put(chk.cache, create_cache_key(r.coin, r.signal),
                           cache_record(r.coin, r.signal, now))
    /\ idx' = idx + 1
    /\ outcome' = "dup"
    /\ UNCHANGED <<now, disk, others, diskOthers, phase, results, alerts_sent, sentAt>>

\* one iteration of process_signals' for loop on a duplicate
SkipDuplicate ==
    /\ phase = "alerting"
    /\ idx <= Len(results)
    /\ LET r == results[idx]
           chk == is_duplicate(cache, r.coin, r.signal, now)
       IN  /\ chk.dup
           /\ cache' = chk.cache
    /\ idx' = idx + 1
    /\ outcome' = "dup"
    /\ UNCHANGED <<now, disk, others, diskOthers, phase, results, alerts_sent, sentAt>>

\* one iteration whose send_alert returns success: mark_sent, the counter,
\* the cooldown sleep
SendAlert ==
    /\ phase = "alerting"
    /\ idx <= Len(results)
    /\ LET r == results[idx]
           chk == is_duplicate(cache, r.coin, r.signal, now)
           st == mark_sent([store EXCEPT !.cache = chk.cache], r.coin, r.signal, now)
       IN  /\ ~chk.dup
           /\ cache' = st.cache
           /\ disk' = st.disk
           /\ diskOthers' = st.diskOthers
           /\ sentAt' = Put(sentAt, create_cache_key(r.coin, r.signal),
                            now)
    /\ alerts_sent' = alerts_sent + 1
    /\ now' = IF alerts_sent' < Len(results) THEN now + Cooldown ELSE now
    /\ idx' = idx + 1
    /\ outcome' = "sent"
    /\ UNCHANGED <<others, phase, results>>

SendFailsButMarks ==
    /\ phase = "alerting"
    /\ idx <= Len(results)
    /\ LET r == results[idx]
           chk == is_duplicate(cache, r.coin, r.signal, now)
           st == mark_sent([store EXCEPT !.cache = chk.cache], r.coin, r.signal, now)
       IN  /\ ~chk.dup
           /\ cache' = st.cache
           /\ disk' = st.disk
           /\ diskOthers' = st.diskOthers
    /\ idx' = idx + 1
    /\ outcome' = "failed"
    /\ UNCHANGED <<now, others, phase, results, alerts_sent, sentAt>>

\* one iteration whose send_alert returns failure
SendFails ==
    /\ phase = "alerting"
    /\ idx <= Len(results)
    /\ LET r == results[idx]
           chk == is_duplicate(cache, r.coin, r.signal, now)
       IN  /\ ~chk.dup
           /\ cache' = chk.cache
    /\ idx' = idx + 1
    /\ outcome' = "failed"
    /\ UNCHANGED <<now, disk, others, diskOthers, phase, results, alerts_sent, sentAt>>

\* process_signals returns and the cycle ends
EndCycle ==
    /\ phase = "alerting"
    /\ idx > Len(results)
    /\ phase' = "idle"
    /\ UNCHANGED <<now, cache, disk, others, diskOthers, results, idx,
                   alerts_sent, outcome, sentAt>>

\* the wall clock moves on
TickHour ==
    /\ now + Hour <= Horizon
    /\ now' = now + Hour
    /\ UNCHANGED <<cache, disk, others, diskOthers, phase, results, idx,
                   alerts_sent, outcome, sentAt>>

\* the process stops at any point and a new one starts: __init__, load_cache
Restart ==
    /\ cache' = load_cache(disk, now)
    /\ others' = diskOthers
    /\ phase' = "idle"
    /\ results' = <<>>
    /\ idx' = 1
    /\ alerts_sent' = 0
    /\ outcome' = "none"
    /\ sentAt' = EmptyDict
    /\ UNCHANGED <<now, disk, diskOthers>>

Next ==
    \/ (StartCycle /\ UNCHANGED funVars)
    \/ (SkipDuplicate /\ UNCHANGED funVars)
    \/ (SendAlert /\ UNCHANGED funVars)
    \/ (SendFails /\ UNCHANGED funVars)
    \/ (EndCycle /\ UNCHANGED funVars)
    \/ (TickHour /\ UNCHANGED funVars)
    \/ (Restart /\ UNCHANGED funVars)

Spec == Init /\ [][Next]_vars

(***************************************************************************)
(* Properties of the pipeline (specification Spec).                        *)
(***************************************************************************)

ResultKey(i) == create_cache_key(results[i].coin, results[i].signal)

\* a step that runs one iteration of process_signals' loop on results[idx]
LoopStep == phase = "alerting" /\ idx <= Len(results) /\ idx' = idx + 1

\* the suppression horizon the specification promises
SpecWindow == 4 * Hour

\* C1: within one process, a candidate whose fingerprint was dispatched less
\* than 4 hours ago is skipped as a duplicate (nothing is sent or recorded for
\* it), and whenever a fingerprint is dispatched again the previous dispatch
\* of it lies at least the dedup window of the candidate, and at least
\* 4 hours, in the past.
C1_NoRepeatInWindow ==
    [][LoopStep =>
         LET k == ResultKey(idx)
         IN  k \in DOMAIN sentAt =>
               /\ (now - sentAt[k] < SpecWindow =>
                     /\ outcome' = "dup"
                     /\ alerts_sent' = alerts_sent
                     /\ sentAt' = sentAt)
               /\ (outcome' = "sent" =>
                     /\ now - sentAt[k] >= dedup_window(results[idx].signal.strength)
                     /\ now - sentAt[k] >= SpecWindow)]_vars

\* C1 witness: a candidate met a later time than its fingerprint's dispatch,
\* inside the window, and was skipped
C1_Witness ==
    /\ outcome = "dup"
    /\ idx > 1
    /\ idx - 1 <= Len(results)
    /\ ResultKey(idx - 1) \in DOMAIN sentAt
    /\ now > sentAt[ResultKey(idx - 1)]
    /\ now - sentAt[ResultKey(idx - 1)] < SpecWindow

\* C2: mark_sent persists the record immediately: after a dispatch the file
\* holds the new record, and a process that stops and restarts finds in its
\* loaded cache every fingerprint the stopped process dispatched within the
\* window.
C2_PersistedImmediately ==
    [][/\ (LoopStep /\ outcome' = "sent" =>
              /\ ResultKey(idx) \in DOMAIN disk'
              /\ disk'[ResultKey(idx)] = cache'[ResultKey(idx)])
       /\ (sentAt # EmptyDict /\ sentAt' = EmptyDict =>
              \A k \in DOMAIN sentAt :
                 now - sentAt[k] < SpecWindow => k \in DOMAIN cache')]_vars

\* the record of results[i]'s fingerprint is in the cache and younger than
\* the candidate's window
LiveRecord(i) ==
    /\ ResultKey(i) \in DOMAIN cache
    /\ now - cache[ResultKey(i)].timestamp
          < dedup_window(results[i].signal.strength)

\* C32: a live record's timestamp is never refreshed.  An iteration that
\* meets a live record of its fingerprint leaves that record as it is and
\* ends as a duplicate; an iteration writes a timestamp only for its own
\* fingerprint, only after a successful dispatch and only when no live
\* record was there, and the timestamp is the present time; and a record in
\* the cache carries the time of the last successful dispatch of its
\* fingerprint in this process, so candidates met in between do not move it.
C32_WindowNotExtended ==
    /\ [](\A k \in DOMAIN cache :
             k \in DOMAIN sentAt => cache[k].timestamp = sentAt[k])
    /\ [][LoopStep =>
            LET k == ResultKey(idx)
            IN  /\ LiveRecord(idx) =>
                      /\ outcome' = "dup"
                      /\ k \in DOMAIN cache'
                      /\ cache'[k] = cache[k]
                /\ \A j \in DOMAIN cache' :
                      (j \notin DOMAIN cache
                          \/ cache'[j].timestamp # cache[j].timestamp) =>
                         /\ j = k
                         /\ ~LiveRecord(idx)
                         /\ outcome' = "sent"
                         /\ cache'[j].timestamp = now]_vars

\* C32 witness: a repeated candidate was skipped an hour or more after the
\* dispatch of its fingerprint, and the record still carries the time of
\* that dispatch
C32_Witness ==
    /\ outcome = "dup"
    /\ idx > 1
    /\ idx - 1 <= Len(results)
    /\ ResultKey(idx - 1) \in DOMAIN sentAt
    /\ ResultKey(idx - 1) \in DOMAIN cache
    /\ cache[ResultKey(idx - 1)].timestamp = sentAt[ResultKey(idx - 1)]
    /\ now - sentAt[ResultKey(idx - 1)] >= Hour
    /\ sentAt[ResultKey(idx - 1)] > 0

\* C6: an iteration whose dispatch fails sends nothing, records nothing and
\* writes nothing: afterwards the cache holds no record for the fingerprint
\* and every other record is as it was, so the same fingerprint is not a
\* duplicate in a later cycle; and a record is written or rewritten in the
\* cache only by an iteration whose dispatch succeeded (or by the load of
\* the file at process start).
C6_FailedDispatchNotMarked ==
    [][/\ (LoopStep /\ outcome' = "failed" =>
              LET k == ResultKey(idx)
              IN  /\ k \notin DOMAIN cache'
                  /\ DOMAIN cache' = (DOMAIN cache) \ {k}
                  /\ \A j \in DOMAIN cache' : cache'[j] = cache[j]
                  /\ disk' = disk
                  /\ alerts_sent' = alerts_sent
                  /\ sentAt' = sentAt
                  /\ ~is_duplicate(cache', results[idx].coin,
                                   results[idx].signal, now').dup)
       /\ ((\E j \in DOMAIN cache' :
               j \notin DOMAIN cache \/ cache'[j] # cache[j]) =>
              \/ LoopStep /\ outcome' = "sent"
              \/ phase' = "idle" /\ outcome' = "none" /\ results' = <<>>)
       /\ (LoopStep /\ ResultKey(idx) \notin DOMAIN cache =>
              outcome' # "dup")]_vars

\* C6 witness: a dispatch failed for a fingerprint that was dispatched
\* before in this process and whose record had expired
C6_Witness ==
    /\ outcome = "failed"
    /\ idx > 1
    /\ idx - 1 <= Len(results)
    /\ ResultKey(idx - 1) \in DOMAIN sentAt
    /\ ResultKey(idx - 1) \notin DOMAIN cache

\* C7: every result in process_signals' list comes from an observation with
\* data, a Heikin-Ashi frame and a long enough series, whose TrendPulse
\* event fired (cross and extreme at the closed candle) and whose StochRSI
\* pair passed the threshold of the event's direction; the signal carries
\* the values of that observation.
C7_OnlyConfirmedReachDedup ==
    \A i \in 1..Len(results) :
       LET r  == results[i]
           md == r.md
       IN  /\ md.data /\ md.ha /\ md.enough /\ md.stoch
           /\ r.signal.signal_type \in {"BUY", "SELL"}
           /\ r.signal.signal_type = "BUY" =>
                 /\ md.wt1_previous <= md.wt2_previous
                 /\ md.wt1_current > md.wt2_current
                 /\ md.wt1_current <= -6000 /\ md.wt2_current <= -6000
                 /\ md.k < 2000 /\ md.d < 2000
           /\ r.signal.signal_type = "SELL" =>
                 /\ md.wt1_previous >= md.wt2_previous
                 /\ md.wt1_current < md.wt2_current
                 /\ md.wt1_current >= 6000 /\ md.wt2_current >= 6000
                 /\ md.k > 8000 /\ md.d > 8000
           /\ r.signal.wt1 = md.wt1_current /\ r.signal.wt2 = md.wt2_current
           /\ r.signal.stoch_rsi_k = md.k /\ r.signal.stoch_rsi_d = md.d

\* C7 witness: both coins of a cycle were confirmed and are being processed
C7_Witness ==
    /\ phase = "alerting"
    /\ Len(results) = 2
    /\ results[1].signal.signal_type = "BUY"
    /\ results[2].signal.signal_type = "SELL"

(***************************************************************************)
(* SpecDecide: analyze's decision on an oscillator pair at the two closed  *)
(* candles, then the StochRSI confirmation of a fired event, as            *)
(* analyze_coin applies them.                                              *)
(***************************************************************************)

PreviousValues == {-6500, -6200, -5500, 5500, 6200, 6500}

CurrentValues ==
    {-6300, -6200, -6001, -6000, -5999, -5800, 5800, 5999, 6000, 6001, 6200, 6300}

StochValues == {1200, 1500, 1999, 2000, 2001, 7999, 8000, 8001, 8500}

Tiers == {"HIGH_RISK", "STANDARD"}

IdlePipe ==
    /\ now = 0
    /\ cache = EmptyDict
    /\ disk = EmptyDict
    /\ others = 0
    /\ diskOthers = 0
    /\ phase = "off"
    /\ results = <<>>
    /\ idx = 1
    /\ alerts_sent = 0
    /\ outcome = "none"
    /\ sentAt = EmptyDict

InitDecide ==
    /\ IdlePipe
    /\ arg \in [wt1_previous : PreviousValues, wt2_previous : PreviousValues,
                wt1_current : CurrentValues, wt2_current : CurrentValues,
                tier_type : Tiers]
    /\ ret = None
    /\ step = "input"

\* trendpulse_analyzer.analyze(ha_df, tier_type), from the closed-candle read
DecideAnalyze ==
    /\ step = "input"
    /\ ret' = [tp |-> analyze(arg.wt1_previous, arg.wt2_previous,
                              arg.wt1_current, arg.wt2_current, arg.tier_type)]
    /\ step' = "analyzed"
    /\ UNCHANGED arg

\* the confirmation of a fired event against the K and D StochRSI returned,
\* by main.py and by main_scheduled.py
DecideConfirm ==
    /\ step = "analyzed"
    /\ ret.tp.has_signal
    /\ \E k \in StochValues, d \in StochValues :
          ret' = [tp |-> ret.tp, k |-> k, d |-> d,
                  confirmed |-> confirm(ret.tp.signal_type, k, d),
                  confirmed_scheduled |-> confirm_scheduled(ret.tp.signal_type, k, d)]
    /\ step' = "confirmed"
    /\ UNCHANGED arg

NextDecide ==
    \/ (DecideAnalyze /\ UNCHANGED pipeVars)
    \/ (DecideConfirm /\ UNCHANGED pipeVars)

SpecDecide == InitDecide /\ [][NextDecide]_vars

\* C8: a BUY event is confirmed iff K < 20 and D < 20, a SELL event iff
\* K > 80 and D > 80, strictly and with both required, in main.py and in
\* main_scheduled.py alike.
C8_ConfirmationRule ==
    step = "confirmed" =>
       LET buy  == ret.tp.signal_type = "BUY"
           sell == ret.tp.signal_type = "SELL"
           rule == \/ buy /\ ret.k < 2000 /\ ret.d < 2000
                   \/ sell /\ ret.k > 8000 /\ ret.d > 8000
       IN  /\ buy \/ sell
           /\ ret.confirmed <=> rule
           /\ ret.confirmed_scheduled <=> rule

\* C8 witness: a BUY with K just under 20 and D exactly 20 is rejected
C8_Witness ==
    /\ step = "confirmed"
    /\ ret.tp.signal_type = "BUY"
    /\ ret.k = 1999
    /\ ret.d = 2000
    /\ ~ret.confirmed

\* C9: BUY fires iff wt1 was <= wt2 and is now > wt2 with both values <= -60;
\* SELL fires iff wt1 was >= wt2 and is now < wt2 with both values >= 60;
\* otherwise there is no event; has_signal tells whether one fired; the
\* strength is |wt1| + |wt2|.  Previous (-65,-55) with current (-62,-63)
\* fires BUY with strength 125, and with current (-58,-61) fires nothing.
C9_TrendPulseRule ==
    step \in {"analyzed", "confirmed"} =>
       LET p1 == arg.wt1_previous
           p2 == arg.wt2_previous
           c1 == arg.wt1_current
           c2 == arg.wt2_current
           buy  == (p1 <= p2 /\ c1 > c2) /\ (c1 <= -6000 /\ c2 <= -6000)
           sell == (p1 >= p2 /\ c1 < c2) /\ (c1 >= 6000 /\ c2 >= 6000)
           tp == ret.tp
       IN  /\ tp.signal_type = "BUY" <=> buy
           /\ tp.signal_type = "SELL" <=> sell
           /\ tp.signal_type = "none" <=> ~buy /\ ~sell
           /\ tp.has_signal <=> buy \/ sell
           /\ tp.strength = Abs(c1) + Abs(c2)
           /\ tp.wt1 = c1 /\ tp.wt2 = c2
           /\ (p1 = -6500 /\ p2 = -5500 /\ c1 = -6200 /\ c2 = -6300 =>
                 tp.signal_type = "BUY" /\ tp.strength = 12500)
           /\ (c1 = -5800 =>
                 tp.signal_type # "BUY")

\* C9 witness: the fixture that fires BUY with strength 125
C9_Witness ==
    /\ step = "analyzed"
    /\ arg.wt1_previous = -6500 /\ arg.wt2_previous = -5500
    /\ arg.wt1_current = -6200 /\ arg.wt2_current = -6300
    /\ ret.tp.has_signal
    /\ ret.tp.signal_type = "BUY"
    /\ ret.tp.strength = 12500

\* C31: a fired event has strength at least 120, so the window is_duplicate
\* chooses for it is the 6-hour one above 120 and the 8-hour one at 120,
\* never the 12-hour one.
C31_SignalWindow ==
    (step \in {"analyzed", "confirmed"} /\ ret.tp.has_signal) =>
       /\ ret.tp.strength >= 12000
       /\ dedup_window(ret.tp.strength)
             = (IF ret.tp.strength > 12000 THEN 21600 ELSE 28800)
       /\ dedup_window(ret.tp.strength) # 43200

\* C31 witness: a SELL fired with both values just beyond the level, and its
\* window is 6 hours
C31_Witness ==
    /\ step = "analyzed"
    /\ ret.tp.signal_type = "SELL"
    /\ ret.tp.wt1 = 6000
    /\ ret.tp.wt2 = 6001
    /\ dedup_window(ret.tp.strength) = 6 * Hour

\* C37: BUY and SELL are mutually exclusive for one evaluation.  On every
\* input the bullish-cross and the bearish-cross tests are not both true,
\* oversold and overbought are not both true, the event is BUY only with
\* the bullish pair of tests and SELL only with the bearish pair,
\* has_signal is true exactly when the type is BUY or SELL, and an
\* evaluation whose type is 'none' does not get to the confirmation.
C37_BuySellExclusive ==
    step \in {"analyzed", "confirmed"} =>
       LET bull == bullish_cross(arg.wt1_previous, arg.wt2_previous,
                                 arg.wt1_current, arg.wt2_current)
           bear == bearish_cross(arg.wt1_previous, arg.wt2_previous,
                                 arg.wt1_current, arg.wt2_current)
           os   == oversold(arg.wt1_current, arg.wt2_current, arg.tier_type)
           ob   == overbought(arg.wt1_current, arg.wt2_current, arg.tier_type)
       IN  /\ ~(bull /\ bear)
           /\ ~(os /\ ob)
           /\ ~((bull /\ os) /\ (bear /\ ob))
           /\ ret.tp.signal_type \in {"BUY", "SELL", "none"}
           /\ ret.tp.signal_type = "BUY" => bull /\ os /\ ~bear /\ ~ob
           /\ ret.tp.signal_type = "SELL" => bear /\ ob /\ ~bull /\ ~os
           /\ ret.tp.has_signal <=> ret.tp.signal_type \in {"BUY", "SELL"}
           /\ step = "confirmed" => ret.tp.signal_type # "none"

\* C37 witness: the two lines were equal on the previous candle, which
\* meets the first half of both cross tests, and the event was a BUY that
\* went to the confirmation
C37_Witness ==
    /\ step = "confirmed"
    /\ arg.wt1_previous = arg.wt2_previous
    /\ arg.wt1_current = -6200
    /\ arg.wt2_current = -6300
    /\ ret.tp.signal_type = "BUY"
    /\ ret.tp.cross_type = "bullish"

(***************************************************************************)
(* SpecKey: the DeduplicationManager called directly.  mark_sent records   *)
(* signal a, the clock moves on, is_duplicate is asked about signal b.     *)
(* Signals produced by the pipeline have strength above 120; the weaker    *)
(* oscillator pairs are there to reach every branch of the window choice.  *)
(***************************************************************************)

\* (wt1, wt2) of a BUY; a SELL has the signs turned
KeyWtFirst == {<<-6204, -6300>>, <<-6249, -6300>>, <<-6000, -6000>>, <<-5000, -5000>>}

KeyWtSecond ==
    KeyWtFirst \cup
    {<<-6196, -6300>>, <<-6100, -6300>>, <<-6251, -6300>>, <<-5000, -5001>>}

\* (K, D) of a BUY; a SELL has them mirrored about 50
KeyStochFirst == {<<1504, 1200>>}

KeyStochSecond == {<<1504, 1200>>, <<1496, 1200>>}

KeyPricesFirst == {12340}

KeyPricesSecond == {12340, 12349, 12350}

KeyDelays ==
    {0, 4 * Hour, 4 * Hour + 1, 6 * Hour - 1, 6 * Hour,
     8 * Hour - 1, 8 * Hour, 12 * Hour - 1, 12 * Hour}

KeyCase(symbol, signal_type, candle_ts, wt, kd, price) ==
    LET sell == signal_type = "SELL"
        wt1 == IF sell THEN -wt[1] ELSE wt[1]
        wt2 == IF sell THEN -wt[2] ELSE wt[2]
    IN  [coin   |-> [symbol |-> symbol, current_price |-> price, total_volume |-> 150],
         signal |-> [signal_type      |-> signal_type,
                     wt1              |-> wt1,
                     wt2              |-> wt2,
                     strength         |-> Abs(wt1) + Abs(wt2),
                     stoch_rsi_k      |-> IF sell THEN 10000 - kd[1] ELSE kd[1],
                     stoch_rsi_d      |-> IF sell THEN 10000 - kd[2] ELSE kd[2],
                     candle_timestamp |-> candle_ts]]

KeyFirst ==
    {KeyCase("AAA", "BUY", 0, wt, kd, price) :
        wt \in KeyWtFirst, kd \in KeyStochFirst, price \in KeyPricesFirst}

KeySecond ==
    {KeyCase(sym, ty, ts, wt, kd, price) :
        sym \in {"AAA", "BBB"}, ty \in {"BUY", "SELL"}, ts \in {0, Hour},
        wt \in KeyWtSecond, kd \in KeyStochSecond, price \in KeyPricesSecond}

InitKey ==
    /\ now = Hour
    /\ cache = EmptyDict
    /\ disk = EmptyDict
    /\ others = 0
    /\ diskOthers = 0
    /\ phase = "off"
    /\ results = <<>>
    /\ idx = 1
    /\ alerts_sent = 0
    /\ outcome = "none"
    /\ sentAt = EmptyDict
    /\ arg \in [a : KeyFirst, b : KeySecond]
    /\ ret = None
    /\ step = "input"

\* mark_sent(coin, signal) for a
KeyMark ==
    /\ step = "input"
    /\ LET st == mark_sent(store, arg.a.coin, arg.a.signal, now)
       IN  /\ cache' = st.cache
           /\ disk' = st.disk
           /\ diskOthers' = st.diskOthers
    /\ ret' = [marked_at |-> now]
    /\ step' = "marked"
    /\ UNCHANGED <<now, others, phase, results, idx, alerts_sent, outcome, sentAt, arg>>

\* time passes
KeyWait ==
    /\ step = "marked"
    /\ \E delay \in KeyDelays : now' = now + delay
    /\ step' = "waited"
    /\ UNCHANGED <<cache, disk, others, diskOthers, phase, results, idx,
                   alerts_sent, outcome, sentAt, arg, ret>>

\* is_duplicate(coin, signal) for b; had and age tell what the cache held
\* for b's fingerprint when the call was made
KeyCheck ==
    /\ step = "waited"
    /\ LET chk == is_duplicate(cache, arg.b.coin, arg.b.signal, now)
           key == create_cache_key(arg.b.coin, arg.b.signal)
           had == key \in DOMAIN cache
       IN  /\ cache' = chk.cache
           /\ ret' = [marked_at |-> ret.marked_at,
                      dup |-> chk.dup,
                      had |-> had,
                      age |-> IF had THEN now - cache[key].timestamp ELSE 0]
    /\ step' = "checked"
    /\ UNCHANGED <<now, disk, others, diskOthers, phase, results, idx,
                   alerts_sent, outcome, sentAt, arg>>

NextKey ==
    \/ KeyMark
    \/ KeyWait
    \/ KeyCheck

SpecKey == InitKey /\ [][NextKey]_vars

\* the nearest multiple of 5 of a value in hundredths (the specification's
\* oscillator bucket); a tie goes up
Round5(v) == ((v + 250) \div 500) * 500

SameHour(x, y) == x.signal.candle_timestamp \div Hour = y.signal.candle_timestamp \div Hour

SameBand(x, y) ==
    /\ Round5(x.signal.wt1) = Round5(y.signal.wt1)
    /\ Round5(x.signal.wt2) = Round5(y.signal.wt2)
    /\ Round5(x.signal.stoch_rsi_k) = Round5(y.signal.stoch_rsi_k)
    /\ Round5(x.signal.stoch_rsi_d) = Round5(y.signal.stoch_rsi_d)

SameTenths(x, y) ==
    /\ Round1(x.signal.wt1) = Round1(y.signal.wt1)
    /\ Round1(x.signal.wt2) = Round1(y.signal.wt2)
    /\ Round1(x.signal.stoch_rsi_k) = Round1(y.signal.stoch_rsi_k)
    /\ Round1(x.signal.stoch_rsi_d) = Round1(y.signal.stoch_rsi_d)

\* C3 as stated: is_duplicate answers true iff a record of the fingerprint
\* exists and is less than 4 hours old, whatever the signal.
C3_FourHourWindow ==
    step = "checked" => (ret.dup <=> ret.had /\ ret.age < 4 * Hour)

\* C3 as amended: is_duplicate answers true iff a record of the fingerprint
\* exists and is younger than the window chosen by the candidate's strength:
\* 6 hours above 120, 8 hours above 100 and up to 120, 12 hours otherwise.
C3_StrengthWindow ==
    step = "checked" =>
       LET s == arg.b.signal.strength
           w == IF s > 12000 THEN 21600 ELSE IF s > 10000 THEN 28800 ELSE 43200
       IN  ret.dup <=> ret.had /\ ret.age < w

\* C3 witness: a pipeline-strength signal asked about 4 hours and 1 second
\* after its record was written is still a duplicate
C3_Witness ==
    /\ step = "checked"
    /\ arg.b.signal.strength > 12000
    /\ ret.had
    /\ ret.age = 4 * Hour + 1
    /\ ret.dup

\* C4 as stated: same symbol, same direction, candle timestamps in the same
\* hour and oscillator values in the same 5-unit bucket: once the first is
\* marked sent the second is a duplicate (asked within 4 hours).
C4_FiveUnitBucket ==
    step = "checked" =>
       (/\ arg.a.coin.symbol = arg.b.coin.symbol
        /\ arg.a.signal.signal_type = arg.b.signal.signal_type
        /\ SameHour(arg.a, arg.b)
        /\ SameBand(arg.a, arg.b)
        /\ now - ret.marked_at < 4 * Hour
        => ret.dup)

\* C4 as amended: same symbol, same direction, candle timestamps equal to the
\* minute, oscillator values equal after rounding to one decimal, and the
\* coin's price (to 3 decimals, cut) and volume (in millions, cut) equal:
\* once the first is marked sent the second is a duplicate while the record
\* is younger than the second signal's window.
C4_TenthsBucket ==
    step = "checked" =>
       (/\ arg.a.coin.symbol = arg.b.coin.symbol
        /\ arg.a.signal.signal_type = arg.b.signal.signal_type
        /\ arg.a.signal.candle_timestamp \div 60 = arg.b.signal.candle_timestamp \div 60
        /\ SameTenths(arg.a, arg.b)
        /\ arg.a.coin.current_price \div 10 = arg.b.coin.current_price \div 10
        /\ arg.a.coin.total_volume \div 10 = arg.b.coin.total_volume \div 10
        /\ now - ret.marked_at < dedup_window(arg.b.signal.strength)
        => ret.dup /\ ret.had)

\* C4 witness: two signals whose wt1 and K differ within a tenth and whose
\* prices differ within a thousandth collide
C4_Witness ==
    /\ step = "checked"
    /\ arg.a.signal.wt1 = -6204 /\ arg.b.signal.wt1 = -6196
    /\ arg.a.signal.stoch_rsi_k = 1504 /\ arg.b.signal.stoch_rsi_k = 1496
    /\ arg.a.coin.current_price = 12340 /\ arg.b.coin.current_price = 12349
    /\ ret.dup

\* C5 as stated: signals that differ in direction, in candle hour or in the
\* 5-unit band of an oscillator value never collide: marking one never makes
\* the other a duplicate.
C5_DistinctByBand ==
    step = "checked" =>
       (\/ arg.a.signal.signal_type # arg.b.signal.signal_type
        \/ ~SameHour(arg.a, arg.b)
        \/ ~SameBand(arg.a, arg.b)
        => ~ret.dup)

\* C5 as amended: signals that differ in direction, in candle hour or in an
\* oscillator value rounded to one decimal never collide.
C5_DistinctByTenths ==
    step = "checked" =>
       (\/ arg.a.signal.signal_type # arg.b.signal.signal_type
        \/ ~SameHour(arg.a, arg.b)
        \/ ~SameTenths(arg.a, arg.b)
        => ~ret.dup /\ ~ret.had)

\* C5 witness: a signal of the same coin, direction and candle that differs
\* in the tenth of wt1 was asked about right after the mark, and was not a
\* duplicate
C5_Witness ==
    /\ step = "checked"
    /\ now = ret.marked_at
    /\ arg.a.coin = arg.b.coin
    /\ arg.a.signal.signal_type = arg.b.signal.signal_type
    /\ SameHour(arg.a, arg.b)
    /\ arg.a.signal.wt1 = -6204 /\ arg.b.signal.wt1 = -6100
    /\ arg.a.signal.stoch_rsi_k = arg.b.signal.stoch_rsi_k
    /\ ~ret.dup

\* C21: a lookup evicts lazily.  is_duplicate on a fingerprint whose record
\* has reached its window deletes that record, and nothing else, and answers
\* false; a lookup that answers true, or that finds no record, leaves the
\* cache as it was, timestamps included.
C21_LazyEviction ==
    [][step = "waited" /\ step' = "checked" =>
          LET key == create_cache_key(arg.b.coin, arg.b.signal)
              s   == arg.b.signal.strength
              w   == IF s > 12000 THEN 21600 ELSE IF s > 10000 THEN 28800 ELSE 43200
          IN  IF key \in DOMAIN cache /\ now - cache[key].timestamp >= w
              THEN /\ ~ret'.dup
                   /\ key \notin DOMAIN cache'
                   /\ DOMAIN cache' = DOMAIN cache \ {key}
                   /\ \A k \in DOMAIN cache' : cache'[k] = cache[k]
              ELSE /\ cache' = cache
                   /\ ret'.dup <=> key \in DOMAIN cache]_vars

\* C21 witness: the record of the fingerprint asked about was 8 hours old,
\* past the 6-hour window of its strength; the lookup answered false and the
\* cache no longer holds it
C21_Witness ==
    /\ step = "checked"
    /\ arg.b.signal.strength > 12000
    /\ ret.had
    /\ ret.age = 8 * Hour
    /\ ~ret.dup
    /\ create_cache_key(arg.b.coin, arg.b.signal) \notin DOMAIN cache

(***************************************************************************)
(* SpecHA: HeikinAshiConverter.convert.  A frame is a sequence of candles  *)
(* with integer prices; a candle is well formed, Low <= Open, Close <=     *)
(* High, as an exchange's OHLC bar is.  The Heikin-Ashi values are exact   *)
(* multiples of 1/HAScale (every division by 2 or 4 of the recurrence is   *)
(* exact at that scale, as it is in binary floating point) and are held    *)
(* as integers, value * HAScale.                                           *)
(***************************************************************************)

MaxLen == 3

MaxPrice == 2

HAScale == 2 ^ (MaxLen + 1)

Candles ==
    {c \in [Open : 1..MaxPrice, High : 1..MaxPrice, Low : 1..MaxPrice, Close : 1..MaxPrice] :
        /\ c.Low <= c.Open /\ c.Low <= c.Close
        /\ c.Open <= c.High /\ c.Close <= c.High}

Frames == UNION {[1..n -> Candles] : n \in 0..MaxLen}

Max3(a, b, c) == Max2(a, Max2(b, c))

Min3(a, b, c) == Min2(a, Min2(b, c))

ha_close(df, i) ==
    ((df[i].Open + df[i].High + df[i].Low + df[i].Close) * HAScale) \div 4

\* an open taken from the previous raw candle
ha_open_from_raw(df, i) ==
    IF i = 1
    THEN ((df[1].Open + df[1].Close) * HAScale) \div 2
    ELSE ((df[i - 1].Open + df[i - 1].Close) * HAScale) \div 2

RECURSIVE ha_open(_, _)
ha_open(df, i) ==
    IF i = 1
    THEN ((df[1].Open + df[1].Close) * HAScale) \div 2
    ELSE (ha_open(df, i - 1) + ha_close(df, i - 1)) \div 2

ha_high_without_open(df, i) ==
    IF i = 1
    THEN df[1].High * HAScale
    ELSE Max2(df[i].High * HAScale, ha_close(df, i))

ha_high(df, i) ==
    IF i = 1
    THEN df[1].High * HAScale
    ELSE Max3(df[i].High * HAScale, ha_open(df, i), ha_close(df, i))

ha_low(df, i) ==
    IF i = 1
    THEN df[1].Low * HAScale
    ELSE Min3(df[i].Low * HAScale, ha_open(df, i), ha_close(df, i))

\* a conversion that accepts a single candle
convert_without_minimum(df) ==
    IF Len(df) < 1
    THEN [ok |-> FALSE, rows |-> <<>>]
    ELSE [ok   |-> TRUE,
          rows |-> [i \in 1..Len(df) |->
                      [Open     |-> df[i].Open,
                       High     |-> df[i].High,
                       Low      |-> df[i].Low,
                       Close    |-> df[i].Close,
                       HA_Close |-> ha_close(df, i),
                       HA_Open  |-> ha_open(df, i),
                       HA_High  |-> ha_high(df, i),
                       HA_Low   |-> ha_low(df, i)]]]

\* None for a frame of fewer than 2 candles, else the frame with the four
\* Heikin-Ashi columns added
convert(df) ==
    IF Len(df) < 2
    THEN [ok |-> FALSE, rows |-> <<>>]
    ELSE [ok   |-> TRUE,
          rows |-> [i \in 1..Len(df) |->
                      [Open     |-> df[i].Open,
                       High     |-> df[i].High,
                       Low      |-> df[i].Low,
                       Close    |-> df[i].Close,
                       HA_Close |-> ha_close(df, i),
                       HA_Open  |-> ha_open(df, i),
                       HA_High  |-> ha_high(df, i),
                       HA_Low   |-> ha_low(df, i)]]]

InitHA ==
    /\ IdlePipe
    /\ arg \in Frames
    /\ ret = None
    /\ step = "input"

Convert ==
    /\ step = "input"
    /\ ret' = convert(arg)
    /\ step' = "converted"
    /\ UNCHANGED arg

\* convert(None): the input is missing
convert_missing == [ok |-> FALSE, rows |-> <<>>]

\* the except clause of convert: an error raised while row i is filled
convert_except(df, i) == [ok |-> FALSE, rows |-> <<>>]

ConvertMissing ==
    /\ step = "input"
    /\ ret' = convert_missing
    /\ step' = "missing"
    /\ UNCHANGED arg
    /\ UNCHANGED pipeVars

ConvertRaises ==
    /\ step = "input"
    /\ Len(arg) >= 2
    /\ \E i \in 1..Len(arg) : ret' = convert_except(arg, i)
    /\ step' = "raised"
    /\ UNCHANGED arg
    /\ UNCHANGED pipeVars

\* the rest of analyze_coin for a coin whose indicators would confirm a BUY
ConvertAnalyzeCoin ==
    /\ step \in {"converted", "missing", "raised"}
    /\ ret' = [ok   |-> ret.ok,
               rows |-> ret.rows,
               coin |-> analyze_coin(high_risk_coin, "HIGH_RISK",
                                     Obs(TRUE, ret.ok, TRUE, -6500, -5500, -6200, -6300,
                                         TRUE, 1500, 1200, 0))]
    /\ step' = "analysed"
    /\ UNCHANGED arg
    /\ UNCHANGED pipeVars

NextHA ==
    \/ Convert /\ UNCHANGED pipeVars
    \/ ConvertMissing
    \/ ConvertRaises
    \/ ConvertAnalyzeCoin

SpecHA == InitHA /\ [][NextHA]_vars

C27_ConvertAllOrNone ==
    /\ step = "missing" => ~ret.ok
    /\ (step = "converted" /\ Len(arg) < 2) => ~ret.ok
    /\ step \in {"converted", "missing", "raised", "analysed"} =>
          IF ret.ok
          THEN /\ Len(ret.rows) = Len(arg)
               /\ \A i \in DOMAIN ret.rows :
                     /\ ret.rows[i].HA_Close > 0 /\ ret.rows[i].HA_Open > 0
                     /\ ret.rows[i].HA_High > 0 /\ ret.rows[i].HA_Low > 0
          ELSE ret.rows = <<>>
    /\ step = "analysed" =>
          (ret.coin = <<>> <=> ~ret.ok)

\* C27 witness: a frame of one candle was refused and its coin, whose
\* indicators would have confirmed a BUY, got no signal
C27_Witness ==
    /\ step = "analysed"
    /\ Len(arg) = 1
    /\ ~ret.ok
    /\ ret.rows = <<>>
    /\ ret.coin = <<>>

\* C28: the values convert returns follow the recurrence: HA_Close is the
\* mean of the candle's four prices at every index, the first HA_Open the
\* mean of the first Open and Close, every later HA_Open the mean of the
\* previous HA_Open and HA_Close, and from the second candle on HA_High and
\* HA_Low the largest and smallest of the candle's High (Low), HA_Open and
\* HA_Close; the four input columns come back as they were and the input is
\* not changed.
C28_Recurrence ==
    /\ [](step = "converted" /\ ret.ok =>
            \A i \in DOMAIN arg :
               LET r == ret.rows[i]
               IN  /\ 4 * r.HA_Close
                        = (arg[i].Open + arg[i].High + arg[i].Low + arg[i].Close) * HAScale
                   /\ i = 1 => 2 * r.HA_Open = (arg[1].Open + arg[1].Close) * HAScale
                   /\ i > 1 =>
                        /\ 2 * r.HA_Open = ret.rows[i - 1].HA_Open + ret.rows[i - 1].HA_Close
                        /\ r.HA_High >= arg[i].High * HAScale
                        /\ r.HA_High >= r.HA_Open /\ r.HA_High >= r.HA_Close
                        /\ r.HA_High \in {arg[i].High * HAScale, r.HA_Open, r.HA_Close}
                        /\ r.HA_Low <= arg[i].Low * HAScale
                        /\ r.HA_Low <= r.HA_Open /\ r.HA_Low <= r.HA_Close
                        /\ r.HA_Low \in {arg[i].Low * HAScale, r.HA_Open, r.HA_Close}
                   /\ r.Open = arg[i].Open /\ r.High = arg[i].High
                   /\ r.Low = arg[i].Low /\ r.Close = arg[i].Close)
    /\ [][arg' = arg]_vars

\* C28 witness: a converted frame of 3 candles whose third HA_Open is not
\* the mean of the second candle's raw Open and Close
C28_Witness ==
    /\ step = "converted"
    /\ ret.ok
    /\ Len(arg) >= 3
    /\ 2 * ret.rows[3].HA_Open # (arg[2].Open + arg[2].Close) * HAScale

(***************************************************************************)
(* SpecFetch: MultiExchangeManager.get_multi_timeframe_data and the use    *)
(* main.py makes of it (fetch_market_data, analyze_coin).  A world is what *)
(* the exchanges are when the call is made: which of them initialized,     *)
(* the market listing of each, and for each timeframe whether              *)
(* fetch_ohlcv_with_retry gives a frame.  A trading pair is the base       *)
(* symbol and its suffix; a listing maps a pair to its 'active' entry,     *)
(* "unflagged" when the market has no such entry.                          *)
(***************************************************************************)

exchange_priority == <<"bingx", "binance", "okx", "bybit">>

ExchangeNames == {exchange_priority[i] : i \in DOMAIN exchange_priority}

symbol_variations(exchange_name, base_symbol) ==
    <<  <<base_symbol, "/USDT">>, <<base_symbol, "/BUSD">>, <<base_symbol, "/USD">>  >>
    \o (IF exchange_name \in {"bingx", "bybit", "okx"}
        THEN <<  <<base_symbol, "/USDT:USDT">>, <<base_symbol, "/USD:USD">>  >>
        ELSE <<>>)

\* market.get('active', True)
market_active(market) == market \in {"active", "unflagged"}

SetMin(S) == CHOOSE x \in S : \A y \in S : x <= y

find_symbol_on_exchange_listed(exchanges, exchange_name, base_symbol) ==
    IF exchange_name \notin DOMAIN exchanges THEN <<>>
    ELSE LET markets == exchanges[exchange_name]
             variations == symbol_variations(exchange_name, base_symbol)
             hits == {i \in DOMAIN variations : variations[i] \in DOMAIN markets}
         IN  IF hits = {} THEN <<>> ELSE <<variations[SetMin(hits)]>>

\* a one-element list with the first variation that is listed and active,
\* the empty list for None
find_symbol_on_exchange(exchanges, exchange_name, base_symbol) ==
    IF exchange_name \notin DOMAIN exchanges THEN <<>>
    ELSE LET markets == exchanges[exchange_name]
             variations == symbol_variations(exchange_name, base_symbol)
             hits == {i \in DOMAIN variations :
                         /\ variations[i] \in DOMAIN markets
                         /\ market_active(markets[variations[i]])}
         IN  IF hits = {} THEN <<>> ELSE <<variations[SetMin(hits)]>>

\* the frame fetch_ohlcv_with_retry gives for a pair and a timeframe
ohlcv_frame(exchange_name, symbol, timeframe, limit) ==
    [exchange |-> exchange_name, symbol |-> symbol,
     timeframe |-> timeframe, limit |-> limit]

get_multi_timeframe_data_default_pair(world, symbol, timeframes) ==
    LET found == {i \in DOMAIN exchange_priority :
                     find_symbol_on_exchange(world.exchanges, exchange_priority[i], symbol) # <<>>}
        working_exchange == IF found = {} THEN exchange_priority[1]
                            ELSE exchange_priority[SetMin(found)]
        working_symbol == IF found = {} THEN <<symbol, "/USDT">>
                          ELSE find_symbol_on_exchange(world.exchanges, working_exchange, symbol)[1]
        got == {tf \in DOMAIN timeframes : world.ohlcv[tf]}
    IN  [data    |-> [tf \in got |->
                        ohlcv_frame(working_exchange, working_symbol, tf, timeframes[tf])],
         working |-> <<[exchange |-> working_exchange, symbol |-> working_symbol]>>,
         fetched |-> DOMAIN timeframes]

\* data is the dict returned; working (the exchange and pair chosen, the
\* empty list when there is none) and fetched (the timeframes for which
\* fetch_ohlcv_with_retry was called) record what the call did
get_multi_timeframe_data(world, symbol, timeframes) ==
    LET found == {i \in DOMAIN exchange_priority :
                     find_symbol_on_exchange(world.exchanges, exchange_priority[i], symbol) # <<>>}
    IN  IF found = {}
        THEN [data |-> EmptyDict, working |-> <<>>, fetched |-> {}]
        ELSE LET working_exchange == exchange_priority[SetMin(found)]
                 working_symbol ==
                     find_symbol_on_exchange(world.exchanges, working_exchange, symbol)[1]
                 got == {tf \in DOMAIN timeframes : world.ohlcv[tf]}
             IN  [data    |-> [tf \in got |->
                                 ohlcv_frame(working_exchange, working_symbol,
                                             tf, timeframes[tf])],
                  working |-> <<[exchange |-> working_exchange,
                                 symbol |-> working_symbol]>>,
                  fetched |-> DOMAIN timeframes]

\* fetch_market_data's timeframes dict: timeframe -> limit
market_timeframes == ("1h" :> 50) @@ ("2h" :> 100)

fetch_market_data_partial(world, symbol) ==
    LET data == get_multi_timeframe_data(world, symbol, market_timeframes).data
    IN  IF DOMAIN data = {} THEN <<>> ELSE <<data>>

\* a one-element list with the data, the empty list for None
fetch_market_data(world, symbol) ==
    LET data == get_multi_timeframe_data(world, symbol, market_timeframes).data
    IN  IF DOMAIN data = {} \/ "1h" \notin DOMAIN data \/ "2h" \notin DOMAIN data
        THEN <<>>
        ELSE <<data>>

\* the steps of analyze_coin that are entered, in order, when the fetch gave
\* market_data and the later stages behave as md tells
analyze_coin_stages(market_data, tier_type, md) ==
    IF market_data = <<>> THEN <<"fetch">>
    ELSE IF ~md.ha THEN <<"fetch", "convert">>
    ELSE IF ~trendpulse(md, tier_type).has_signal
         THEN <<"fetch", "convert", "trendpulse">>
         ELSE <<"fetch", "convert", "trendpulse", "stochrsi">>

\* analyze_coin with its fetch: the result, and what it went through
analyze_coin_fetched(world, coin, tier_type, md) ==
    LET market_data == fetch_market_data(world, coin.symbol)
    IN  [market_data |-> market_data,
         stages      |-> analyze_coin_stages(market_data, tier_type, md),
         result      |-> analyze_coin(coin, tier_type,
                                      [md EXCEPT !.data = (market_data # <<>>)])]

Entry(base_symbol, suffix, market) == <<base_symbol, suffix>> :> market

\* the market listings an exchange may have
Listings ==
    { EmptyDict,
      Entry("AAA", "/USDT", "active"),
      Entry("AAA", "/USDT", "inactive"),
      Entry("AAA", "/USDT", "inactive") @@ Entry("AAA", "/USD", "active"),
      Entry("AAA", "/USD", "unflagged"),
      Entry("AAA", "/USDT:USDT", "active"),
      Entry("AAA", "/USDT", "inactive") @@ Entry("AAA", "/BUSD", "inactive"),
      Entry("ZZZ", "/USDT", "active") }

Worlds ==
    { [exchanges |-> [e \in up |-> m[e]], ohlcv |-> f] :
        m \in [ExchangeNames -> Listings],
        up \in SUBSET ExchangeNames,
        f \in [DOMAIN market_timeframes -> BOOLEAN] }

\* what the stages after the fetch may give: a BUY that StochRSI confirms,
\* and a short frame
FetchObservations ==
    { Obs(TRUE, TRUE, TRUE, -6500, -5500, -6200, -6300, TRUE, 1500, 1200, 0),
      Obs(TRUE, TRUE, FALSE, -6500, -5500, -6200, -6300, TRUE, 1500, 1200, 0) }

InitFetch ==
    /\ IdlePipe
    /\ arg \in [world : Worlds, md : FetchObservations]
    /\ ret = None
    /\ step = "input"

\* exchange_manager.get_multi_timeframe_data(symbol, timeframes)
GetMultiTimeframeData ==
    /\ step = "input"
    /\ ret' = [multi |-> get_multi_timeframe_data(arg.world, high_risk_coin.symbol,
                                                  market_timeframes)]
    /\ step' = "fetched"
    /\ UNCHANGED arg

\* analyze_coin(coin, 'HIGH_RISK')
AnalyzeCoinFetched ==
    /\ step = "input"
    /\ ret' = [multi |-> get_multi_timeframe_data(arg.world, high_risk_coin.symbol,
                                                  market_timeframes),
               run   |-> analyze_coin_fetched(arg.world, high_risk_coin,
                                              "HIGH_RISK", arg.md)]
    /\ step' = "analyzed"
    /\ UNCHANGED arg

NextFetch ==
    \/ (GetMultiTimeframeData /\ UNCHANGED pipeVars)
    \/ (AnalyzeCoinFetched /\ UNCHANGED pipeVars)

SpecFetch == InitFetch /\ [][NextFetch]_vars

\* exchange e is initialized and lists an active variant of the symbol
HasActiveVariant(world, e, base_symbol) ==
    /\ e \in DOMAIN world.exchanges
    /\ \E i \in DOMAIN symbol_variations(e, base_symbol) :
          LET pair == symbol_variations(e, base_symbol)[i]
          IN  /\ pair \in DOMAIN world.exchanges[e]
              /\ world.exchanges[e][pair] # "inactive"

PriorityOf(e) == CHOOSE i \in DOMAIN exchange_priority : exchange_priority[i] = e

\* C11: the resolver returns a pair of the first exchange, in priority
\* order, that lists an active variant of the symbol; the pair is in that
\* exchange's listing and is not inactive there; with no such exchange there
\* is no pair.
C11_ResolverPriority ==
    step = "fetched" =>
       LET sym == high_risk_coin.symbol
           sources == {e \in ExchangeNames : HasActiveVariant(arg.world, e, sym)}
       IN  IF sources = {}
           THEN ret.multi.working = <<>>
           ELSE /\ Len(ret.multi.working) = 1
                /\ LET w == ret.multi.working[1]
                   IN  /\ w.exchange \in sources
                       /\ \A e \in sources : PriorityOf(w.exchange) <= PriorityOf(e)
                       /\ w.symbol \in DOMAIN arg.world.exchanges[w.exchange]
                       /\ arg.world.exchanges[w.exchange][w.symbol] # "inactive"
                       /\ w.symbol[1] = sym

\* C11 witness: the first exchange is up and lists the symbol's pair as
\* inactive, binance does not list the symbol, okx lists it, and the pair of
\* okx is returned
C11_Witness ==
    /\ step = "fetched"
    /\ "bingx" \in DOMAIN arg.world.exchanges
    /\ <<"AAA", "/USDT">> \in DOMAIN arg.world.exchanges["bingx"]
    /\ ~HasActiveVariant(arg.world, "bingx", "AAA")
    /\ ~HasActiveVariant(arg.world, "binance", "AAA")
    /\ ret.multi.working = <<[exchange |-> "okx", symbol |-> <<"AAA", "/USD">>]>>

\* some timeframe's fetch failed on the pair that was resolved
SomeTimeframeFailed ==
    /\ ret.multi.working # <<>>
    /\ \E tf \in DOMAIN market_timeframes : ~arg.world.ohlcv[tf]

\* C12: when the fetch of any requested timeframe fails, analyze_coin gets
\* no market data, returns no result and enters no stage after the fetch.
C12_AllOrNothing ==
    step = "analyzed" /\ SomeTimeframeFailed =>
       /\ ret.run.market_data = <<>>
       /\ ret.run.result = <<>>
       /\ ret.run.stages = <<"fetch">>

\* C12 witness: the 1h frame was fetched, the 2h frame was not, on data that
\* would have been a confirmed BUY, and the coin gave nothing
C12_Witness ==
    /\ step = "analyzed"
    /\ DOMAIN ret.multi.data = {"1h"}
    /\ arg.md.enough
    /\ ret.run.result = <<>>
    /\ ret.run.stages = <<"fetch">>

\* C20: when no exchange lists an active variant of the symbol,
\* get_multi_timeframe_data returns the empty dict and calls no OHLCV fetch,
\* and analyze_coin ends at the fetch with no result.
C20_NoSourceNoFetch ==
    step # "input"
    /\ (\A e \in ExchangeNames : ~HasActiveVariant(arg.world, e, high_risk_coin.symbol)) =>
       /\ ret.multi.data = EmptyDict
       /\ ret.multi.fetched = {}
       /\ step = "analyzed" =>
             /\ ret.run.market_data = <<>>
             /\ ret.run.result = <<>>
             /\ ret.run.stages = <<"fetch">>

\* C20 witness: every exchange is up, none lists an active variant, both
\* timeframes would have been served, and the coin ended at the fetch
C20_Witness ==
    /\ step = "analyzed"
    /\ DOMAIN arg.world.exchanges = ExchangeNames
    /\ \A e \in ExchangeNames : ~HasActiveVariant(arg.world, e, "AAA")
    /\ \A tf \in DOMAIN market_timeframes : arg.world.ohlcv[tf]
    /\ arg.md.enough
    /\ ret.multi.fetched = {}
    /\ ret.run.stages = <<"fetch">>

(***************************************************************************)
(* SpecRetry: MultiExchangeManager.fetch_ohlcv_with_retry for one pair and *)
(* timeframe.  Each pass of the for loop is one step: the body either      *)
(* raises (exchange.fetch_ohlcv or the frame construction) or gets the raw *)
(* rows the exchange returns.  A raw row is its five price and volume      *)
(* fields; a field is a number, None, or a text that is not a number, held  *)
(* as a record of its kind and value.                                      *)
(* Sleeps are in tenths of a second.                                       *)
(***************************************************************************)

max_retries == 3

\* 0.5 seconds
BackoffStep == 5

MinCandles == 30

Number(x) == [kind |-> "number", value |-> x]

NoneField == [kind |-> "None", value |-> 0]

TextField == [kind |-> "text", value |-> 0]

NaN == [kind |-> "NaN", value |-> 0]

OhlcvColumns == {"Open", "High", "Low", "Close", "Volume"}

\* pd.to_numeric(errors='coerce') on one field
to_numeric(v) == IF v.kind = "number" THEN v ELSE NaN

coerce(rows) == [i \in DOMAIN rows |-> [col \in OhlcvColumns |-> to_numeric(rows[i][col])]]

dropna_keep(rows) == rows

\* df.dropna(): the rows without a null field, in order
dropna(rows) == SelectSeq(rows, LAMBDA r : \A col \in OhlcvColumns : r[col] # NaN)

\* the try body once exchange.fetch_ohlcv has returned: a one-element list
\* with the frame, the empty list for None
frame_of(ohlcv) ==
    IF Len(ohlcv) > 0 /\ Len(ohlcv) >= MinCandles
    THEN LET df == dropna(coerce(ohlcv))
         IN  IF Len(df) >= MinCandles THEN <<df>> ELSE <<>>
    ELSE <<>>

GoodRow == [col \in OhlcvColumns |-> Number(1)]

BadRows == {[GoodRow EXCEPT !["Close"] = NoneField], [GoodRow EXCEPT !["Volume"] = TextField]}

\* n rows, those at the positions in bad being the row badRow
RawRows(n, bad, badRow) == [i \in 1..n |-> IF i \in bad THEN badRow ELSE GoodRow]

RawFrames ==
    { RawRows(n, bad, badRow) :
        n \in {0, MinCandles - 1, MinCandles, MinCandles + 1, MinCandles + 2},
        bad \in SUBSET {1, 2, MinCandles},
        badRow \in BadRows }

\* arg.up: exchange_name is a key of self.exchanges
InitRetry ==
    /\ IdlePipe
    /\ arg \in [up : BOOLEAN]
    /\ ret = [attempt |-> 0, calls |-> 0, raises |-> 0, slept |-> <<>>,
              ohlcv |-> <<>>, out |-> <<>>]
    /\ step = "loop"

\* the exchange is not initialized: None before the loop
RetryNoExchange ==
    /\ step = "loop"
    /\ ~arg.up
    /\ step' = "returned"
    /\ UNCHANGED <<arg, ret>>

AttemptRaisesNoRetry ==
    /\ step = "loop"
    /\ arg.up
    /\ ret.attempt < max_retries
    /\ ret' = [ret EXCEPT !.calls = @ + 1, !.raises = @ + 1]
    /\ step' = "returned"
    /\ UNCHANGED arg

\* a pass whose try body raises: sleep and go on, or None on the last pass
AttemptRaises ==
    /\ step = "loop"
    /\ arg.up
    /\ ret.attempt < max_retries
    /\ IF ret.attempt < max_retries - 1
       THEN /\ ret' = [ret EXCEPT !.calls = @ + 1, !.raises = @ + 1,
                                  !.slept = Append(@, BackoffStep * (ret.attempt + 1)),
                                  !.attempt = @ + 1]
            /\ step' = "loop"
       ELSE /\ ret' = [ret EXCEPT !.calls = @ + 1, !.raises = @ + 1]
            /\ step' = "returned"
    /\ UNCHANGED arg

\* a pass that treats rows that make no frame as it treats a raised error
AttemptReturnsRetries ==
    /\ step = "loop"
    /\ arg.up
    /\ ret.attempt < max_retries
    /\ \E ohlcv \in RawFrames :
          IF frame_of(ohlcv) = <<>> /\ ret.attempt < max_retries - 1
          THEN /\ ret' = [ret EXCEPT !.calls = @ + 1, !.ohlcv = ohlcv,
                                     !.slept = Append(@, BackoffStep * (ret.attempt + 1)),
                                     !.attempt = @ + 1]
               /\ step' = "loop"
          ELSE /\ ret' = [ret EXCEPT !.calls = @ + 1, !.ohlcv = ohlcv,
                                     !.out = frame_of(ohlcv)]
               /\ step' = "returned"
    /\ UNCHANGED arg

\* a pass whose fetch returns rows: the frame or None, with no further pass
AttemptReturns ==
    /\ step = "loop"
    /\ arg.up
    /\ ret.attempt < max_retries
    /\ \E ohlcv \in RawFrames :
          ret' = [ret EXCEPT !.calls = @ + 1, !.ohlcv = ohlcv, !.out = frame_of(ohlcv)]
    /\ step' = "returned"
    /\ UNCHANGED arg

NextRetry ==
    \/ (RetryNoExchange /\ UNCHANGED pipeVars)
    \/ (AttemptRaises /\ UNCHANGED pipeVars)
    \/ (AttemptReturns /\ UNCHANGED pipeVars)

SpecRetry == InitRetry /\ [][NextRetry]_vars

\* the rows of a raw answer whose five fields are all numbers
NumericRows(ohlcv) ==
    {i \in DOMAIN ohlcv : \A col \in OhlcvColumns : ohlcv[i][col].kind = "number"}

\* C18: at most 3 fetch attempts are made; the wait after the k-th failed
\* attempt is 0.5s x k; a call that returns after failed attempts only has
\* made all 3 and returns None; when an attempt gets rows
\* that make a frame, that frame is returned.
C18_RetryWithBackoff ==
    /\ ret.calls <= max_retries
    /\ \A k \in DOMAIN ret.slept : ret.slept[k] = BackoffStep * k
    /\ step = "loop" => Len(ret.slept) = ret.raises /\ ret.calls = ret.raises
    /\ step = "returned" /\ arg.up =>
          /\ ret.raises = ret.calls => ret.calls = 3 /\ ret.out = <<>>
          /\ ret.raises < ret.calls =>
                /\ ret.calls = ret.raises + 1
                /\ Len(ret.slept) = ret.raises
                /\ Cardinality(NumericRows(ret.ohlcv)) >= 30 =>
                      /\ Len(ret.out) = 1
                      /\ Len(ret.out[1]) = Cardinality(NumericRows(ret.ohlcv))

\* C18 witness: two attempts raised, 0.5s and 1.0s were slept, and the
\* third attempt's frame was returned
C18_Witness ==
    /\ step = "returned"
    /\ ret.raises = 2
    /\ ret.slept = <<5, 10>>
    /\ ret.calls = 3
    /\ Len(ret.out) = 1

\* C19: the call gives None whenever fewer than 30 rows are left after the
\* coercion to numbers and the removal of rows with a null; a frame that is
\* returned has at least 30 rows and no null field.
C19_MinimumCandles ==
    step = "returned" =>
       /\ Cardinality(NumericRows(ret.ohlcv)) < 30 => ret.out = <<>>
       /\ ret.out # <<>> =>
             /\ Len(ret.out[1]) >= 30
             /\ \A i \in DOMAIN ret.out[1] :
                   \A col \in OhlcvColumns : ret.out[1][i][col].kind = "number"

\* C19 witness: 31 raw rows, two of them with a field that is no number,
\* gave None
C19_Witness ==
    /\ step = "returned"
    /\ Len(ret.ohlcv) = 31
    /\ Cardinality(NumericRows(ret.ohlcv)) = 29
    /\ ret.out = <<>>

\* C35: only raised fetch errors are retried.  A pass after which the loop
\* goes on is a pass that raised; a pass whose fetch returned rows ends the
\* call at once, with no wait, and when the rows are none or leave fewer
\* than 30 usable candles the call returns None on that same pass.
C35_OnlyErrorsRetried ==
    [][step = "loop" =>
         /\ step' = "loop" =>
               /\ ret'.raises = ret.raises + 1
               /\ ret'.ohlcv = ret.ohlcv
         /\ ret'.calls = ret.calls + 1 /\ ret'.raises = ret.raises =>
               /\ step' = "returned"
               /\ ret'.slept = ret.slept
               /\ ret'.attempt = ret.attempt
               /\ (Len(ret'.ohlcv) = 0
                      \/ Cardinality(NumericRows(ret'.ohlcv)) < MinCandles) =>
                     ret'.out = <<>>]_vars

\* C35 witness: the first attempt raised and was retried after 0.5s, the
\* second returned 30 rows of which 29 are usable, and the call ended there
\* with None, one attempt unused
C35_Witness ==
    /\ step = "returned"
    /\ ret.raises = 1
    /\ ret.calls = 2
    /\ ret.slept = <<5>>
    /\ Len(ret.ohlcv) = 30
    /\ Cardinality(NumericRows(ret.ohlcv)) = 29
    /\ ret.out = <<>>

(***************************************************************************)
(* SpecReplay: DeduplicationManager.mark_sent called twice for one signal, *)
(* with time passing between the calls, in a cache that may already hold   *)
(* the record of another signal.                                           *)
(***************************************************************************)

ReplayDelays == {0, Cooldown, Hour, 13 * Hour}

InitReplay ==
    /\ now = Hour
    /\ cache = EmptyDict
    /\ disk = EmptyDict
    /\ others \in {0, SaveEvery - 2, SaveEvery - 1}
    /\ diskOthers = 0
    /\ phase = "off"
    /\ results = <<>>
    /\ idx = 1
    /\ alerts_sent = 0
    /\ outcome = "none"
    /\ sentAt = EmptyDict
    /\ arg \in [a : KeyFirst, b : KeySecond]
    /\ ret = None
    /\ step = "input"

\* mark_sent(coin, signal) for b, the other signal
ReplayOther ==
    /\ step = "input"
    /\ LET st == mark_sent(store, arg.b.coin, arg.b.signal, now)
       IN  /\ cache' = st.cache
           /\ disk' = st.disk
           /\ diskOthers' = st.diskOthers
    /\ step' = "seeded"
    /\ UNCHANGED <<now, others, phase, results, idx, alerts_sent, outcome, sentAt, arg, ret>>

\* the first mark_sent(coin, signal) for a
ReplayFirst ==
    /\ step \in {"input", "seeded"}
    /\ LET st == mark_sent(store, arg.a.coin, arg.a.signal, now)
       IN  /\ cache' = st.cache
           /\ disk' = st.disk
           /\ diskOthers' = st.diskOthers
           /\ ret' = [records |-> Cardinality(DOMAIN st.cache),
                      keys |-> DOMAIN st.cache,
                      first_at |-> now]
    /\ step' = "once"
    /\ UNCHANGED <<now, others, phase, results, idx, alerts_sent, outcome, sentAt, arg>>

\* time passes
ReplayWait ==
    /\ step = "once"
    /\ \E delay \in ReplayDelays : now' = now + delay
    /\ step' = "waited"
    /\ UNCHANGED <<cache, disk, others, diskOthers, phase, results, idx,
                   alerts_sent, outcome, sentAt, arg, ret>>

\* the second mark_sent(coin, signal) for a
ReplaySecond ==
    /\ step = "waited"
    /\ LET st == mark_sent(store, arg.a.coin, arg.a.signal, now)
       IN  /\ cache' = st.cache
           /\ disk' = st.disk
           /\ diskOthers' = st.diskOthers
    /\ step' = "twice"
    /\ UNCHANGED <<now, others, phase, results, idx, alerts_sent, outcome, sentAt, arg, ret>>

NextReplay ==
    \/ ReplayOther
    \/ ReplayFirst
    \/ ReplayWait
    \/ ReplaySecond

SpecReplay == InitReplay /\ [][NextReplay]_vars

\* C15: after the second mark_sent of an identical signal the cache holds
\* the records it held after the first, no more and no fewer, and the
\* record of the signal carries the time of the second call.
C15_ReplayKeepsOneRecord ==
    step = "twice" =>
       /\ Cardinality(DOMAIN cache) = ret.records
       /\ DOMAIN cache = ret.keys
       /\ \E k \in DOMAIN cache :
             /\ cache[k].symbol = arg.a.coin.symbol
             /\ cache[k].wt1 = arg.a.signal.wt1
             /\ cache[k].timestamp = now
             /\ \A j \in DOMAIN cache \ {k} : cache[j].timestamp = Hour

\* C15 witness: the cache held another signal's record, the second call
\* came an hour after the first, and there are two records, the signal's
\* own with the later time
C15_Witness ==
    /\ step = "twice"
    /\ now = ret.first_at + Hour
    /\ Cardinality(DOMAIN cache) = 2
    /\ cache[create_cache_key(arg.a.coin, arg.a.signal)].timestamp = now

(***************************************************************************)
(* SpecLoad: DeduplicationManager.load_cache at startup, on a file that is *)
(* missing, unreadable, or holds records of several ages.                  *)
(***************************************************************************)

LoadAges ==
    {0, 12 * Hour, 24 * Hour - 1, 24 * Hour, 24 * Hour + 1,
     48 * Hour - 1, 48 * Hour, 48 * Hour + 1, 72 * Hour}

LoadTime == 100 * Hour

LoadSignals == {KeyCase("AAA", "BUY", 0, <<-6204, -6300>>, <<1504, 1200>>, 12340),
                KeyCase("BBB", "SELL", 0, <<-6204, -6300>>, <<1504, 1200>>, 12340)}

\* the files save_cache may have left: one record per signal of S, the
\* record of s written at age[s] before the load
LoadFiles ==
    { [k \in {create_cache_key(s.coin, s.signal) : s \in S} |->
          LET s == CHOOSE x \in S : create_cache_key(x.coin, x.signal) = k
          IN  cache_record(s.coin, s.signal, LoadTime - age[s])] :
        S \in SUBSET LoadSignals, age \in [LoadSignals -> LoadAges] }

InitLoad ==
    /\ now = LoadTime
    /\ cache = EmptyDict
    /\ disk \in LoadFiles
    /\ others = 0
    /\ diskOthers = 0
    /\ phase = "off"
    /\ results = <<>>
    /\ idx = 1
    /\ alerts_sent = 0
    /\ outcome = "none"
    /\ sentAt = EmptyDict
    /\ arg \in [file : {"missing", "unreadable", "readable"}]
    /\ ret = None
    /\ step = "input"

\* DeduplicationManager.__init__: load_cache()
LoadCache ==
    /\ step = "input"
    /\ cache' = IF arg.file = "readable" THEN load_cache(disk, now) ELSE EmptyDict
    /\ step' = "loaded"
    /\ UNCHANGED <<now, disk, others, diskOthers, phase, results, idx,
                   alerts_sent, outcome, sentAt, arg, ret>>

NextLoad == LoadCache

SpecLoad == InitLoad /\ [][NextLoad]_vars

\* C16 as stated: after load_cache no record older than 24 hours is in the
\* in-memory cache.
C16_NoneOlderThanDay ==
    step = "loaded" =>
       \A k \in DOMAIN cache : now - cache[k].timestamp <= 24 * Hour

\* C16 as amended: load_cache keeps exactly the persisted records younger
\* than 48 hours, unchanged; no record 48 hours old or older is in the
\* in-memory cache after it.
C16_NoneOlderThanTwoDays ==
    step = "loaded" =>
       /\ \A k \in DOMAIN cache : now - cache[k].timestamp < 48 * Hour
       /\ arg.file = "readable" =>
             \A k \in DOMAIN disk :
                now - disk[k].timestamp < 48 * Hour =>
                   k \in DOMAIN cache /\ cache[k] = disk[k]

\* C16 witness: the file held a record one second younger than 48 hours and
\* one of exactly 48 hours; the first is in memory and the second is not
C16_Witness ==
    /\ step = "loaded"
    /\ Cardinality(DOMAIN disk) = 2
    /\ Cardinality(DOMAIN cache) = 1
    /\ \E k \in DOMAIN cache : now - cache[k].timestamp = 48 * Hour - 1
    /\ \E k \in DOMAIN disk : now - disk[k].timestamp = 48 * Hour

(***************************************************************************)
(* SpecBatch: one execute_analysis_cycle of main.py with its thread pool.  *)
(* The batch is the coins submitted, HIGH_RISK first; what the analysis of *)
(* each will meet is fixed with the batch: its market data and whether an  *)
(* error is raised inside analyze_coin's try body.  Pool threads take the  *)
(* queued tasks in submission order and finish in any order, while the     *)
(* main thread collects the futures in submission order and then runs      *)
(* process_signals, whose is_duplicate and send_alert/mark_sent are        *)
(* separate steps here.  ret.access lists the accesses to the dedup store  *)
(* and ret.sent the fingerprints dispatched, as they happen.               *)
(***************************************************************************)

MAX_WORKERS == 4

BatchSize == 5

BatchBuy == Obs(TRUE, TRUE, TRUE, -6500, -5500, -6200, -6300, TRUE, 1500, 1200, 0)

BatchSell == Obs(TRUE, TRUE, TRUE, 6500, 5500, 6200, 6300, TRUE, 8500, 9000, 0)

\* what one coin's analysis may meet: a signal that is confirmed, no data,
\* an error raised in the try body
BatchOutcomes(confirmed) ==
    { [md |-> confirmed, raises |-> FALSE],
      [md |-> Obs(FALSE, FALSE, FALSE, 0, 0, 0, 0, FALSE, 0, 0, 0), raises |-> FALSE],
      [md |-> confirmed, raises |-> TRUE] }

\* and, for the first coin, a failed Heikin-Ashi conversion or StochRSI
BatchFailures(confirmed) ==
    { [md |-> [confirmed EXCEPT !.ha = FALSE], raises |-> FALSE],
      [md |-> [confirmed EXCEPT !.stoch = FALSE], raises |-> FALSE] }

\* the submissions: the HIGH_RISK coin (listed more than once), then the
\* STANDARD coin
Batches ==
    { [i \in 1..BatchSize |->
          [coin |-> IF i < BatchSize THEN high_risk_coin ELSE standard_coin,
           tier |-> IF i < BatchSize THEN "HIGH_RISK" ELSE "STANDARD",
           md |-> o[i].md, raises |-> o[i].raises]] :
        o \in { f \in [1..BatchSize ->
                         BatchOutcomes(BatchBuy) \cup BatchFailures(BatchBuy)
                         \cup BatchOutcomes(BatchSell)] :
                  /\ \A i \in 2..(BatchSize - 1) : f[i] \in BatchOutcomes(BatchBuy)
                  /\ f[1] \in BatchOutcomes(BatchBuy) \cup BatchFailures(BatchBuy)
                  /\ f[BatchSize] \in BatchOutcomes(BatchSell) } }

analyze_coin_task_propagates(coin, tier_type, md, raises) ==
    [raised |-> raises, result |-> IF raises THEN <<>> ELSE analyze_coin(coin, tier_type, md)]

\* analyze_coin as the pool runs it: the try body and its except clause,
\* which turns any raised error into (None, message); raised tells whether
\* an error leaves the function
analyze_coin_task(coin, tier_type, md, raises) ==
    [raised |-> FALSE, result |-> IF raises THEN <<>> ELSE analyze_coin(coin, tier_type, md)]

InitBatch ==
    /\ now = 0
    /\ cache = EmptyDict
    /\ disk = EmptyDict
    /\ others = 0
    /\ diskOthers = 0
    /\ phase = "idle"
    /\ results = <<>>
    /\ idx = 1
    /\ alerts_sent = 0
    /\ outcome = "none"
    /\ sentAt = EmptyDict
    /\ arg \in Batches
    /\ ret = [task |-> [i \in 1..BatchSize |-> "queued"],
              future |-> [i \in 1..BatchSize |-> [raised |-> FALSE, result |-> <<>>]],
              collected |-> 0,
              access |-> <<>>,
              sent |-> <<>>,
              attempts |-> <<>>]
    /\ step = "collect"

batchPipe == <<now, cache, disk, others, diskOthers, phase, results, idx,
               alerts_sent, outcome, sentAt>>

\* a pool thread takes the oldest queued task
TaskStart(i) ==
    /\ ret.task[i] = "queued"
    /\ \A j \in 1..(i - 1) : ret.task[j] # "queued"
    /\ Cardinality({j \in 1..BatchSize : ret.task[j] = "running"}) < MAX_WORKERS
    /\ ret' = [ret EXCEPT !.task[i] = "running"]
    /\ UNCHANGED <<arg, step>>
    /\ UNCHANGED batchPipe

\* analyze_coin returns in its pool thread
TaskFinish(i) ==
    /\ ret.task[i] = "running"
    /\ ret' = [ret EXCEPT !.task[i] = "done",
                          !.future[i] = analyze_coin_task(arg[i].coin, arg[i].tier,
                                                          arg[i].md, arg[i].raises)]
    /\ UNCHANGED <<arg, step>>
    /\ UNCHANGED batchPipe

\* a collection that takes the STANDARD future first
CollectStandardFirst ==
    /\ step = "collect"
    /\ ret.collected < BatchSize
    /\ LET k == IF ret.collected = 0 THEN BatchSize ELSE ret.collected
       IN  /\ ret.task[k] = "done"
           /\ IF ret.future[k].raised
              THEN /\ step' = "aborted"
                   /\ UNCHANGED <<ret, results>>
              ELSE /\ results' = results \o ret.future[k].result
                   /\ ret' = [ret EXCEPT !.collected = @ + 1]
                   /\ UNCHANGED step
    /\ UNCHANGED <<now, cache, disk, others, diskOthers, phase, idx,
                   alerts_sent, outcome, sentAt, arg>>

\* future.result() of the next future, once its task is done: the result is
\* appended when there is one; an error that left the task is raised again
\* and ends the cycle in execute_analysis_cycle's except clause
Collect ==
    /\ step = "collect"
    /\ ret.collected < BatchSize
    /\ LET k == ret.collected + 1
       IN  /\ ret.task[k] = "done"
           /\ IF ret.future[k].raised
              THEN /\ step' = "aborted"
                   /\ UNCHANGED <<ret, results>>
              ELSE /\ results' = results \o ret.future[k].result
                   /\ ret' = [ret EXCEPT !.collected = k]
                   /\ UNCHANGED step
    /\ UNCHANGED <<now, cache, disk, others, diskOthers, phase, idx,
                   alerts_sent, outcome, sentAt, arg>>

\* the with block ends (the pool is joined) and process_signals is called
StartProcess ==
    /\ step = "collect"
    /\ ret.collected = BatchSize
    /\ \A i \in 1..BatchSize : ret.task[i] = "done"
    /\ step' = "check"
    /\ phase' = "alerting"
    /\ idx' = 1
    /\ alerts_sent' = 0
    /\ UNCHANGED <<now, cache, disk, others, diskOthers, results, outcome, sentAt, arg, ret>>

\* is_duplicate for the result at idx
BatchCheck ==
    /\ step = "check"
    /\ idx <= Len(results)
    /\ LET r == results[idx]
           chk == is_duplicate(cache, r.coin, r.signal, now)
       IN  /\ cache' = chk.cache
           /\ ret' = [ret EXCEPT !.access =
                         Append(@, [by |-> "main", op |-> "check", at |-> idx,
                                    dup |-> chk.dup])]
           /\ IF chk.dup
              THEN idx' = idx + 1 /\ outcome' = "dup" /\ UNCHANGED step
              ELSE step' = "send" /\ UNCHANGED <<idx, outcome>>
    /\ UNCHANGED <<now, disk, others, diskOthers, phase, results, alerts_sent, sentAt, arg>>

BatchSendOkUnmarked ==
    /\ step = "send"
    /\ LET r == results[idx]
       IN  ret' = [ret EXCEPT !.sent = Append(@, create_cache_key(r.coin, r.signal)),
                              !.attempts = Append(@, [at |-> idx, time |-> now,
                                                      success |-> TRUE])]
    /\ alerts_sent' = alerts_sent + 1
    /\ now' = IF alerts_sent' < Len(results) THEN now + Cooldown ELSE now
    /\ idx' = idx + 1
    /\ outcome' = "sent"
    /\ step' = "check"
    /\ UNCHANGED <<cache, disk, diskOthers, others, phase, results, sentAt, arg>>

BatchSendOkNoSleep ==
    /\ step = "send"
    /\ LET r == results[idx]
           st == mark_sent(store, r.coin, r.signal, now)
       IN  /\ cache' = st.cache
           /\ disk' = st.disk
           /\ diskOthers' = st.diskOthers
           /\ ret' = [ret EXCEPT !.access =
                         Append(@, [by |-> "main", op |-> "mark", at |-> idx,
                                    dup |-> FALSE]),
                                 !.sent = Append(@, create_cache_key(r.coin, r.signal)),
                                 !.attempts = Append(@, [at |-> idx, time |-> now,
                                                         success |-> TRUE])]
    /\ alerts_sent' = alerts_sent + 1
    /\ idx' = idx + 1
    /\ outcome' = "sent"
    /\ step' = "check"
    /\ UNCHANGED <<now, others, phase, results, sentAt, arg>>

\* send_alert succeeds: mark_sent, the counter, the cooldown sleep
BatchSendOk ==
    /\ step = "send"
    /\ LET r == results[idx]
           st == mark_sent(store, r.coin, r.signal, now)
       IN  /\ cache' = st.cache
           /\ disk' = st.disk
           /\ diskOthers' = st.diskOthers
           /\ ret' = [ret EXCEPT !.access =
                         Append(@, [by |-> "main", op |-> "mark", at |-> idx,
                                    dup |-> FALSE]),
                                 !.sent = Append(@, create_cache_key(r.coin, r.signal)),
                                 !.attempts = Append(@, [at |-> idx, time |-> now,
                                                         success |-> TRUE])]
    /\ alerts_sent' = alerts_sent + 1
    /\ now' = IF alerts_sent' < Len(results) THEN now + Cooldown ELSE now
    /\ idx' = idx + 1
    /\ outcome' = "sent"
    /\ step' = "check"
    /\ UNCHANGED <<others, phase, results, sentAt, arg>>

\* a failed send_alert that is counted all the same
BatchSendFailsCounted ==
    /\ step = "send"
    /\ ret' = [ret EXCEPT !.attempts = Append(@, [at |-> idx, time |-> now,
                                                  success |-> FALSE])]
    /\ alerts_sent' = alerts_sent + 1
    /\ idx' = idx + 1
    /\ outcome' = "failed"
    /\ step' = "check"
    /\ UNCHANGED <<now, cache, disk, others, diskOthers, phase, results,
                   sentAt, arg>>

\* send_alert fails
BatchSendFails ==
    /\ step = "send"
    /\ ret' = [ret EXCEPT !.attempts = Append(@, [at |-> idx, time |-> now,
                                                  success |-> FALSE])]
    /\ idx' = idx + 1
    /\ outcome' = "failed"
    /\ step' = "check"
    /\ UNCHANGED <<now, cache, disk, others, diskOthers, phase, results,
                   alerts_sent, sentAt, arg>>

\* process_signals returns
BatchEnd ==
    /\ step = "check"
    /\ idx > Len(results)
    /\ step' = "done"
    /\ phase' = "idle"
    /\ UNCHANGED <<now, cache, disk, others, diskOthers, results, idx,
                   alerts_sent, outcome, sentAt, arg, ret>>

NextBatch ==
    \/ \E i \in 1..BatchSize : TaskStart(i)
    \/ \E i \in 1..BatchSize : TaskFinish(i)
    \/ Collect
    \/ StartProcess
    \/ BatchCheck
    \/ BatchSendOk
    \/ BatchSendFails
    \/ BatchEnd

SpecBatch == InitBatch /\ [][NextBatch]_vars

\* what the analysis of submission i yields when it does not fail
RECURSIVE ExpectedResults(_)
ExpectedResults(n) ==
    IF n = 0 THEN <<>>
    ELSE ExpectedResults(n - 1)
         \o (IF arg[n].raises THEN <<>>
             ELSE analyze_coin(arg[n].coin, arg[n].tier, arg[n].md))

\* submission i fails: no data, a failed conversion or indicator, an error
Failing(i) == arg[i].raises \/ ~arg[i].md.data \/ ~arg[i].md.ha \/ ~arg[i].md.stoch

\* C13: the cycle is never aborted by a coin's failure: whatever fails,
\* every coin's analysis is run, process_signals receives the confirmed
\* result of every coin that did not fail, and nothing of a failing coin.
C13_FailureNeverAbortsBatch ==
    /\ step # "aborted"
    /\ step \in {"check", "send", "done"} =>
          /\ \A i \in 1..BatchSize : ret.task[i] = "done"
          /\ results = ExpectedResults(BatchSize)
          /\ Len(results) = Cardinality({i \in 1..BatchSize : ~Failing(i)})

\* C13 witness: the first coin raised an error, the second had no data, the
\* others were confirmed, and process_signals has ended with their alerts
\* sent
C13_Witness ==
    /\ step = "done"
    /\ arg[1].raises
    /\ ~arg[2].md.data
    /\ Len(results) = BatchSize - 2
    /\ alerts_sent = 2

\* C14: only the main thread accesses the dedup store, and only once every
\* analysis task is done; a mark_sent comes straight after the is_duplicate
\* of the same result, with no other access between; no fingerprint is
\* dispatched twice in the cycle.
C14_CheckThenMarkSerialized ==
    /\ \A n \in DOMAIN ret.access : ret.access[n].by = "main"
    /\ ret.access # <<>> => \A i \in 1..BatchSize : ret.task[i] = "done"
    /\ \A n \in DOMAIN ret.access :
          ret.access[n].op = "mark" =>
             /\ n > 1
             /\ ret.access[n - 1].op = "check"
             /\ ret.access[n - 1].at = ret.access[n].at
             /\ ~ret.access[n - 1].dup
    /\ \A m, n \in DOMAIN ret.sent : m # n => ret.sent[m] # ret.sent[n]

\* C14 witness: two results with one fingerprint reached process_signals;
\* the first was dispatched and marked, the second found a duplicate
C14_Witness ==
    /\ step = "done"
    /\ Len(results) >= 2
    /\ create_cache_key(results[1].coin, results[1].signal)
          = create_cache_key(results[2].coin, results[2].signal)
    /\ Len(ret.access) >= 3
    /\ ret.access[2].op = "mark"
    /\ ret.access[3].op = "check" /\ ret.access[3].dup
    /\ Len(ret.sent) >= 1

\* C22: between any dispatch attempt of process_signals and the next one of
\* the same call the cooldown delay elapses, whatever coins and tiers the two
\* results belong to.
C22_DelayBetweenAttempts ==
    \A n \in DOMAIN ret.attempts :
       n + 1 \in DOMAIN ret.attempts =>
          ret.attempts[n + 1].time >= ret.attempts[n].time + Cooldown

\* C22 as amended: the cooldown follows a successful dispatch only.  After a
\* successful dispatch the next attempt of the same call comes at least the
\* cooldown later, whatever coins and tiers the two results belong to; after
\* a failed attempt the next one follows with no cooldown sleep between.
C22_DelayAfterSuccessfulDispatch ==
    \A n \in DOMAIN ret.attempts :
       n + 1 \in DOMAIN ret.attempts =>
          IF ret.attempts[n].success
          THEN ret.attempts[n + 1].time >= ret.attempts[n].time + 30
          ELSE ret.attempts[n + 1].time = ret.attempts[n].time

\* C22 witness: an alert of the HIGH_RISK coin was dispatched, and the next
\* attempt, for the STANDARD coin, came a cooldown later
C22_Witness ==
    /\ Len(ret.attempts) >= 2
    /\ ret.attempts[1].success
    /\ results[ret.attempts[1].at].tier = "HIGH_RISK"
    /\ results[ret.attempts[2].at].tier = "STANDARD"
    /\ results[ret.attempts[1].at].coin # results[ret.attempts[2].at].coin
    /\ ret.attempts[2].time = ret.attempts[1].time + 30

\* C30: results are collected in submission order whatever order the tasks
\* end in: while futures are collected the list is the confirmed results of
\* the submissions collected so far, in submission order, and the list
\* process_signals receives is that of all submissions, every HIGH_RISK
\* result before every STANDARD one.
C30_SubmissionOrder ==
    /\ step = "collect" => results = ExpectedResults(ret.collected)
    /\ step \in {"check", "send", "done"} =>
          /\ results = ExpectedResults(BatchSize)
          /\ \A m, n \in DOMAIN results :
                (m < n /\ results[m].tier = "STANDARD") => results[n].tier = "STANDARD"

\* C30 witness: the STANDARD coin, submitted last, has ended with a
\* confirmed SELL while an earlier HIGH_RISK submission is still running,
\* and the list holds HIGH_RISK results only
C30_Witness ==
    /\ step = "collect"
    /\ ret.task[BatchSize] = "done"
    /\ ret.future[BatchSize].result # <<>>
    /\ ret.task[BatchSize - 1] = "running"
    /\ ~Failing(BatchSize - 1)
    /\ results # <<>>
    /\ \A n \in DOMAIN results : results[n].tier = "HIGH_RISK"

\* the dispatch attempts of the call so far that succeeded, those that
\* failed, the mark_sent calls and the duplicates found
Dispatched == {n \in DOMAIN ret.attempts : ret.attempts[n].success}

FailedAttempts == {n \in DOMAIN ret.attempts : ~ret.attempts[n].success}

MarkCalls == {n \in DOMAIN ret.access : ret.access[n].op = "mark"}

DuplicatesFound ==
    {n \in DOMAIN ret.access : ret.access[n].op = "check" /\ ret.access[n].dup}

\* C38: throughout process_signals, and when it returns, its counter is the
\* number of dispatches that succeeded, which is the number of mark_sent
\* calls, and is at most the number of results passed in; every result gone
\* through is a dispatch, a failed attempt or a duplicate, and only the
\* first kind is counted.
C38_CountIsDispatches ==
    step \in {"check", "send", "done"} =>
       /\ alerts_sent = Cardinality(Dispatched)
       /\ alerts_sent = Cardinality(MarkCalls)
       /\ alerts_sent <= Len(results)
       /\ Cardinality(Dispatched) + Cardinality(FailedAttempts)
             + Cardinality(DuplicatesFound) = idx - 1
       /\ \A n \in Dispatched :
             \E m \in MarkCalls : ret.access[m].at = ret.attempts[n].at

\* C38 witness: process_signals returned 1 for three or more results, of
\* which one was dispatched, one was a duplicate and one failed
C38_Witness ==
    /\ step = "done"
    /\ Len(results) >= 3
    /\ alerts_sent = 1
    /\ Cardinality(DuplicatesFound) >= 1
    /\ Cardinality(FailedAttempts) >= 1

(***************************************************************************)
(* SpecTrend: TrendPulseAnalyzer.analyze on a whole Heikin-Ashi frame.  A  *)
(* frame is a sequence of rows with HA_High, HA_Low and HA_Close in        *)
(* hundredths.  The source computes in binary floating point; here every   *)
(* series is held in hundredths and each division rounds down, which is    *)
(* the same chain of operations on the same operands with a coarser        *)
(* rounding.  An evaluation is recorded with its input, the clock at the   *)
(* time and the result.                                                    *)
(***************************************************************************)

ch_len == 9

avg_len == 12

smooth_len == 3

\* series.ewm(span=length, adjust=False).mean()
RECURSIVE ema(_, _)
ema(series, length) ==
    IF Len(series) <= 1 THEN series
    ELSE LET prev == ema(SubSeq(series, 1, Len(series) - 1), length)
         IN  Append(prev, ((length - 1) * prev[Len(prev)] + 2 * series[Len(series)])
                          \div (length + 1))

\* series.rolling(window=length).mean(): NaN until the window is full
RECURSIVE WindowSum(_, _, _)
WindowSum(series, i, length) ==
    IF length = 0 THEN 0 ELSE series[i] + WindowSum(series, i - 1, length - 1)

sma(series, length) ==
    [i \in DOMAIN series |->
        IF i < length THEN NaN ELSE WindowSum(series, i, length) \div length]

\* (HA_High + HA_Low + HA_Close) / 3.0
ha_hlc3(ha_df) ==
    [i \in DOMAIN ha_df |-> (ha_df[i].HA_High + ha_df[i].HA_Low + ha_df[i].HA_Close) \div 3]

\* dev.replace(0, 0.001), in thousandths
dev_safe(dev) == [i \in DOMAIN dev |-> IF dev[i] = 0 THEN 1 ELSE 10 * dev[i]]

\* the two WaveTrend series of a frame
wave_trend(ha_df) ==
    LET hlc3 == ha_hlc3(ha_df)
        esa == ema(hlc3, ch_len)
        dev == ema([i \in DOMAIN hlc3 |-> Abs(hlc3[i] - esa[i])], ch_len)
        safe == dev_safe(dev)
        ci == [i \in DOMAIN hlc3 |-> ((hlc3[i] - esa[i]) * 1000000) \div (15 * safe[i])]
        wt1 == ema(ci, avg_len)
    IN  [wt1 |-> wt1, wt2 |-> sma(wt1, smooth_len)]

trendpulse_analyze_clocked(ha_df, tier_type) ==
    IF Len(ha_df) < ch_len + avg_len + 5 THEN no_signal
    ELSE LET wt == wave_trend(ha_df)
             n == Len(ha_df)
             last == IF now = 0 THEN n - 1 ELSE n
         IN  analyze(wt.wt1[last - 1], wt.wt2[last - 1],
                     wt.wt1[last], wt.wt2[last], tier_type)

\* a decision read at the last two candles, the in-progress one included
trendpulse_analyze_latest(ha_df, tier_type) ==
    IF Len(ha_df) < ch_len + avg_len + 5 THEN no_signal
    ELSE LET wt == wave_trend(ha_df)
             n == Len(ha_df)
         IN  analyze(wt.wt1[n - 1], wt.wt2[n - 1], wt.wt1[n], wt.wt2[n], tier_type)

\* a decision with no minimum length
trendpulse_analyze_any_length(ha_df, tier_type) ==
    LET wt == wave_trend(ha_df)
        n == Len(ha_df)
    IN  analyze(wt.wt1[n - 2], wt.wt2[n - 2], wt.wt1[n - 1], wt.wt2[n - 1], tier_type)

\* trendpulse_analyzer.analyze(ha_df, tier_type)
trendpulse_analyze(ha_df, tier_type) ==
    IF Len(ha_df) < ch_len + avg_len + 5 THEN no_signal
    ELSE LET wt == wave_trend(ha_df)
             n == Len(ha_df)
         IN  IF Len(wt.wt1) < 3 THEN no_signal
             ELSE analyze(wt.wt1[n - 2], wt.wt2[n - 2],
                          wt.wt1[n - 1], wt.wt2[n - 1], tier_type)

ha_row(level, spread) ==
    [HA_High |-> level + spread, HA_Low |-> level - spread, HA_Close |-> level]

\* a frame of n candles: from the first level a steady drift up to the
\* fourth candle from the end, then the last three candles move by tail
TrendFrame(n, drift, tail, spread) ==
    LET first == 10500
        base == first + (n - 4) * drift
        level(i) == IF i <= n - 3 THEN first + (i - 1) * drift
                    ELSE IF i = n - 2 THEN base + tail[1]
                    ELSE IF i = n - 1 THEN base + tail[1] + tail[2]
                    ELSE base + tail[1] + tail[2] + tail[3]
    IN  [i \in 1..n |-> ha_row(level(i), spread)]

MinFrame == ch_len + avg_len + 5

TrendFrames ==
    { TrendFrame(n, drift, <<t1, t2, t3>>, spread) :
        n \in {MinFrame - 1, MinFrame, MinFrame + 1},
        drift \in {-50, 0, 50},
        t1 \in {-200, 0, 200}, t2 \in {-200, 0, 50}, t3 \in {-200, 100},
        spread \in {0} }

MaxEvaluations == 3

InitTrend ==
    /\ IdlePipe
    /\ arg \in [a : [ha_df : TrendFrames, tier_type : Tiers],
                b : [ha_df : {TrendFrame(MinFrame, 50, <<200, -200, 0>>, 0)},
                     tier_type : {"STANDARD"}]]
    /\ ret = <<>>
    /\ step = "ready"

\* one call of analyze on input a or input b
TrendEvaluate ==
    /\ Len(ret) < MaxEvaluations
    /\ \E which \in {"a", "b"} :
          ret' = Append(ret, [input  |-> arg[which],
                              at     |-> now,
                              result |-> trendpulse_analyze(arg[which].ha_df,
                                                            arg[which].tier_type)])
    /\ UNCHANGED <<now, cache, disk, others, diskOthers, phase, results, idx,
                   alerts_sent, outcome, sentAt, arg, step>>

\* the wall clock moves on
TrendTick ==
    /\ now < Hour
    /\ now' = now + Hour
    /\ UNCHANGED <<cache, disk, others, diskOthers, phase, results, idx,
                   alerts_sent, outcome, sentAt, arg, ret, step>>

NextTrend ==
    \/ TrendEvaluate
    \/ TrendTick

SpecTrend == InitTrend /\ [][NextTrend]_vars

frame_observation(ha_df, stoch) ==
    LET n == Len(ha_df)
        enough == n >= ch_len + avg_len + 5
        wt == wave_trend(ha_df)
    IN  Obs(TRUE, TRUE, enough,
            IF enough THEN wt.wt1[n - 2] ELSE 0,
            IF enough THEN wt.wt2[n - 2] ELSE 0,
            IF enough THEN wt.wt1[n - 1] ELSE 0,
            IF enough THEN wt.wt2[n - 1] ELSE 0,
            stoch.ok, stoch.k, stoch.d, 0)

\* candles the in-progress candle may be replaced by
LastRows == {ha_row(10500, 0), ha_row(11000, 200)}

\* outcomes of the StochRSI call
FrameStoch ==
    {[ok |-> TRUE, k |-> 1500, d |-> 1200], [ok |-> TRUE, k |-> 8500, d |-> 9000]}

with_last(ha_df, row) == [ha_df EXCEPT ![Len(ha_df)] = row]

InitFrame ==
    /\ IdlePipe
    /\ arg \in [ha_df : TrendFrames, last : LastRows, tier_type : Tiers,
                stoch : FrameStoch]
    /\ ret = [first   |-> [t \in Tiers |-> <<>>],
              changed |-> <<>>,
              coin    |-> <<>>]
    /\ step = "frame"

\* analyze(ha_df, tier_type)
FrameAnalyze(tier_type) ==
    /\ step = "frame"
    /\ ret.first[tier_type] = <<>>
    /\ ret' = [ret EXCEPT !.first[tier_type] =
                  <<trendpulse_analyze(arg.ha_df, tier_type)>>]
    /\ UNCHANGED <<arg, step>>
    /\ UNCHANGED pipeVars

\* analyze on the frame whose last candle has moved on
FrameAnalyzeChanged ==
    /\ step = "frame"
    /\ ret.changed = <<>>
    /\ ret' = [ret EXCEPT !.changed =
                  <<trendpulse_analyze(with_last(arg.ha_df, arg.last), arg.tier_type)>>]
    /\ UNCHANGED <<arg, step>>
    /\ UNCHANGED pipeVars

\* analyze_coin on the coin the frame belongs to
FrameAnalyzeCoin ==
    /\ step = "frame"
    /\ ret.coin = <<>>
    /\ LET md == frame_observation(arg.ha_df, arg.stoch)
       IN  ret' = [ret EXCEPT !.coin =
                      <<[stages |-> analyze_coin_stages(<<md>>, arg.tier_type, md),
                         result |-> analyze_coin(high_risk_coin, arg.tier_type, md)]>>]
    /\ UNCHANGED <<arg, step>>
    /\ UNCHANGED pipeVars

NextFrame ==
    \/ \E tier_type \in Tiers : FrameAnalyze(tier_type)
    \/ FrameAnalyzeChanged
    \/ FrameAnalyzeCoin

SpecFrame == InitFrame /\ [][NextFrame]_vars

\* C23: the decision does not depend on the in-progress candle: a frame and
\* the frame that differs from it in the last candle only give the same
\* wt1, wt2, signal type and strength.
C23_LastCandleIgnored ==
    (ret.first[arg.tier_type] # <<>> /\ ret.changed # <<>>) =>
       LET x == ret.first[arg.tier_type][1]
           y == ret.changed[1]
       IN  /\ x.wt1 = y.wt1
           /\ x.wt2 = y.wt2
           /\ x.has_signal = y.has_signal
           /\ x.signal_type = y.signal_type
           /\ x.strength = y.strength

\* C23 witness: a frame long enough gave a BUY, and so did the frame with a
\* different last candle
C23_Witness ==
    /\ ret.first[arg.tier_type] # <<>>
    /\ ret.changed # <<>>
    /\ with_last(arg.ha_df, arg.last) # arg.ha_df
    /\ ret.first[arg.tier_type][1].signal_type = "BUY"
    /\ ret.changed[1].signal_type = "BUY"

\* C24: for every frame, analyze gives the same result for HIGH_RISK and for
\* STANDARD.
C24_TiersAgree ==
    (ret.first["HIGH_RISK"] # <<>> /\ ret.first["STANDARD"] # <<>>) =>
       ret.first["HIGH_RISK"][1] = ret.first["STANDARD"][1]

\* C24 witness: one frame gave a BUY for both tiers
C24_Witness ==
    /\ ret.first["HIGH_RISK"] # <<>>
    /\ ret.first["STANDARD"] # <<>>
    /\ ret.first["HIGH_RISK"][1].signal_type = "BUY"
    /\ ret.first["STANDARD"][1].signal_type = "BUY"

\* C25: a frame of fewer than 26 candles gives 'no signal' for either tier;
\* a coin whose frame gives no TrendPulse signal yields no confirmed signal
\* and its analysis stops before the StochRSI stage.
C25_ShortFrameNoSignal ==
    /\ \A t \in Tiers :
          (ret.first[t] # <<>> /\ Len(arg.ha_df) < 26) =>
             /\ ~ret.first[t][1].has_signal
             /\ ret.first[t][1].signal_type = "none"
    /\ (ret.coin # <<>> /\ ret.first[arg.tier_type] # <<>>
          /\ ~ret.first[arg.tier_type][1].has_signal) =>
             /\ ret.coin[1].result = <<>>
             /\ \A n \in DOMAIN ret.coin[1].stages : ret.coin[1].stages[n] # "stochrsi"

\* C25 witness: a frame of 25 candles was analysed to 'no signal' and its
\* coin's analysis ended at the TrendPulse stage with no result, while the
\* StochRSI values would have confirmed a BUY
C25_Witness ==
    /\ Len(arg.ha_df) = 25
    /\ ret.first[arg.tier_type] # <<>>
    /\ ~ret.first[arg.tier_type][1].has_signal
    /\ ret.coin # <<>>
    /\ ret.coin[1].result = <<>>
    /\ ret.coin[1].stages = <<"fetch", "convert", "trendpulse">>
    /\ arg.stoch.k = 1500

(***************************************************************************)
(* SpecStoch: StochRSICalculator.calculate on the closes of a 2h frame,    *)
(* its use by analyze_coin, and the divisors of both indicators on the     *)
(* same closes.  Closes, RSI, K and D are in hundredths; a rolling average *)
(* of gains or losses is held as its window sum (the average times the     *)
(* window length), which leaves their ratio as it is.  A rolling series is *)
(* a function on the indices where its window is full (NaN before).        *)
(* Indices count from 1: iloc[-2] of a series of n values is index n - 1.  *)
(* Where the RSI values of a window differ by less than a hundredth (a     *)
(* run of gains with no loss), the range is 0 here and is replaced, while  *)
(* the source divides by the small difference itself: K and D of such a    *)
(* window are below this model's resolution.                               *)
(***************************************************************************)

rsi_period == 14

stoch_period == 14

k_smooth == 3

d_smooth == 3

replace_zero_kept(x) == [tiny |-> FALSE, value |-> x]

\* series.replace(0, 1e-10) on one value: the replacement is below the
\* resolution of the series and is held as one unit of 1e-10 (tiny), any
\* other value stays in the unit of the series
replace_zero(x) ==
    IF x = 0 THEN [tiny |-> TRUE, value |-> 1] ELSE [tiny |-> FALSE, value |-> x]

\* a / b with the quotient counted in 1/scale, rounded down.  A non-zero a
\* over 1e-10 is beyond every value of the series and is held as 10^9; a
\* floating-point division by 0 raises nothing and gives inf or NaN, held
\* the same way
over(a, b, scale) ==
    IF b.tiny \/ b.value = 0
    THEN IF a = 0 THEN 0 ELSE IF a > 0 THEN 1000000000 ELSE -1000000000
    ELSE (a * scale) \div b.value

\* delta.where(delta > 0, 0): the first delta is NaN and gives 0
price_gain(close_prices) ==
    [i \in DOMAIN close_prices |->
        IF i > 1 /\ close_prices[i] - close_prices[i - 1] > 0
        THEN close_prices[i] - close_prices[i - 1] ELSE 0]

\* -delta.where(delta < 0, 0)
price_loss(close_prices) ==
    [i \in DOMAIN close_prices |->
        IF i > 1 /\ close_prices[i] - close_prices[i - 1] < 0
        THEN close_prices[i - 1] - close_prices[i] ELSE 0]

\* avg_loss.replace(0, 1e-10)
avg_loss_safe(close_prices) ==
    LET loss == price_loss(close_prices)
    IN  [i \in rsi_period..Len(close_prices) |->
            replace_zero(WindowSum(loss, i, rsi_period))]

\* rs = avg_gain / avg_loss.replace(0, 1e-10)
relative_strength(close_prices) ==
    LET gain == price_gain(close_prices)
        safe == avg_loss_safe(close_prices)
    IN  [i \in rsi_period..Len(close_prices) |->
            over(WindowSum(gain, i, rsi_period), safe[i], 100)]

\* rsi = 100 - (100 / (1 + rs))
calculate_rsi(close_prices) ==
    LET rs == relative_strength(close_prices)
    IN  [i \in DOMAIN rs |-> 10000 - (1000000 \div (100 + rs[i]))]

RECURSIVE WindowMin(_, _, _)
WindowMin(series, i, length) ==
    IF length = 1 THEN series[i]
    ELSE Min2(series[i], WindowMin(series, i - 1, length - 1))

RECURSIVE WindowMax(_, _, _)
WindowMax(series, i, length) ==
    IF length = 1 THEN series[i]
    ELSE Max2(series[i], WindowMax(series, i - 1, length - 1))

\* (rsi_max - rsi_min).replace(0, 1e-10)
rsi_range_safe(rsi, n) ==
    [i \in (rsi_period + stoch_period - 1)..n |->
        replace_zero(WindowMax(rsi, i, stoch_period) - WindowMin(rsi, i, stoch_period))]

\* the K and D series
stoch_rsi(close_prices) ==
    LET n == Len(close_prices)
        rsi == calculate_rsi(close_prices)
        rsi_range == rsi_range_safe(rsi, n)
        first == rsi_period + stoch_period - 1
        stoch == [i \in first..n |->
                     over(rsi[i] - WindowMin(rsi, i, stoch_period), rsi_range[i], 10000)]
        k == [i \in (first + k_smooth - 1)..n |-> WindowSum(stoch, i, k_smooth) \div k_smooth]
        d == [i \in (first + k_smooth + d_smooth - 2)..n |->
                 WindowSum(k, i, d_smooth) \div d_smooth]
    IN  [stoch_rsi_k |-> k, stoch_rsi_d |-> d]

\* a result read at the last candle
calculate_latest(df) ==
    IF Len(df) < rsi_period + stoch_period + k_smooth + d_smooth + 10 THEN <<>>
    ELSE LET s == stoch_rsi([i \in DOMAIN df |-> df[i].Close])
         IN  <<[stoch_rsi_k |-> s.stoch_rsi_k,
                stoch_rsi_d |-> s.stoch_rsi_d,
                current_k   |-> s.stoch_rsi_k[Len(df)],
                current_d   |-> s.stoch_rsi_d[Len(df)]]>>

\* StochRSICalculator.calculate(df): the empty list for None, or the
\* one-element list of the result
calculate(df) ==
    IF Len(df) < rsi_period + stoch_period + k_smooth + d_smooth + 10 THEN <<>>
    ELSE LET s == stoch_rsi([i \in DOMAIN df |-> df[i].Close])
         IN  IF Len(df) < 2 THEN <<>>
             ELSE <<[stoch_rsi_k |-> s.stoch_rsi_k,
                     stoch_rsi_d |-> s.stoch_rsi_d,
                     current_k   |-> s.stoch_rsi_k[Len(df) - 1],
                     current_d   |-> s.stoch_rsi_d[Len(df) - 1]]>>

\* the divisors calculate_rsi and calculate meet, as magnitudes in their
\* units; a frame too short is returned before any division
stochrsi_divisors(df) ==
    LET close_prices ==
            IF Len(df) < rsi_period + stoch_period + k_smooth + d_smooth + 10
            THEN <<>> ELSE [i \in DOMAIN df |-> df[i].Close]
        safe == avg_loss_safe(close_prices)
        rs == relative_strength(close_prices)
        rsi_range == rsi_range_safe(calculate_rsi(close_prices), Len(close_prices))
    IN  [avg_loss    |-> [i \in DOMAIN safe |-> safe[i].value],
         one_plus_rs |-> [i \in DOMAIN rs |-> 100 + rs[i]],
         rsi_range   |-> [i \in DOMAIN rsi_range |-> rsi_range[i].value]]

\* the divisor of ci, 0.015 * dev_safe
trendpulse_divisors(ha_df) ==
    LET hlc3 == ha_hlc3(ha_df)
        esa == ema(hlc3, ch_len)
        dev == ema([i \in DOMAIN hlc3 |-> Abs(hlc3[i] - esa[i])], ch_len)
        safe == dev_safe(dev)
    IN  [i \in DOMAIN hlc3 |-> 15 * safe[i]]

\* what analyze_coin observes of a coin whose TrendPulse signal is that of
\* tp and whose 2h frame is df
stoch_observation(tp, df) ==
    LET stochrsi_data == calculate(df)
    IN  [tp EXCEPT !.stoch = (stochrsi_data # <<>>),
                   !.k = IF stochrsi_data # <<>> THEN stochrsi_data[1].current_k ELSE 0,
                   !.d = IF stochrsi_data # <<>> THEN stochrsi_data[1].current_d ELSE 0]

\* a 2h frame of n candles: a steady drift with a wobble on every other
\* candle, then the last three candles move by tail
CloseFrame(n, drift, wobble, tail) ==
    LET first == 10500
        base == first + (n - 4) * drift
        level(i) == IF i <= n - 3 THEN first + (i - 1) * drift + (i % 2) * wobble
                    ELSE IF i = n - 2 THEN base + tail[1]
                    ELSE IF i = n - 1 THEN base + tail[1] + tail[2]
                    ELSE base + tail[1] + tail[2] + tail[3]
    IN  [i \in 1..n |-> [Close |-> level(i)]]

MinStoch == rsi_period + stoch_period + k_smooth + d_smooth + 10

CloseFrames ==
    { CloseFrame(n, drift, wobble, <<t1, t2, t3>>) :
        n \in {MinStoch - 1, MinStoch, MinStoch + 1},
        drift \in {-50, 0, 50}, wobble \in {0, 80},
        t1 \in {0, 200}, t2 \in {-200, 0}, t3 \in {100} }
    \cup { CloseFrame(n, 0, 0, <<0, 0, 0>>) : n \in {MinStoch - 1, MinStoch, MinStoch + 1} }

InitStoch ==
    /\ IdlePipe
    /\ arg \in [df : CloseFrames, tp : {BatchBuy, BatchSell}]
    /\ ret = [stochrsi_data |-> <<>>, coin |-> <<>>, divisors |-> <<>>, trend |-> <<>>]
    /\ step = "closes"

\* stochrsi_calculator.calculate(market_data['2h'])
StochCalculate ==
    /\ step = "closes"
    /\ ret' = [ret EXCEPT !.stochrsi_data = <<calculate(arg.df)>>]
    /\ step' = "calculated"
    /\ UNCHANGED arg
    /\ UNCHANGED pipeVars

\* analyze_coin on a coin with a TrendPulse signal and this 2h frame
StochAnalyzeCoin ==
    /\ step = "calculated"
    /\ ret' = [ret EXCEPT !.coin =
                  <<analyze_coin(standard_coin, "STANDARD",
                                 stoch_observation(arg.tp, arg.df))>>]
    /\ step' = "analysed"
    /\ UNCHANGED arg
    /\ UNCHANGED pipeVars

\* the divisors that call of calculate met
StochDivisors ==
    /\ step = "analysed"
    /\ ret' = [ret EXCEPT !.divisors = <<stochrsi_divisors(arg.df)>>]
    /\ step' = "divided"
    /\ UNCHANGED arg
    /\ UNCHANGED pipeVars

\* TrendPulse on the Heikin-Ashi frame of the same closes
StochTrendPulse ==
    /\ step = "divided"
    /\ LET ha_df == [i \in DOMAIN arg.df |-> ha_row(arg.df[i].Close, 0)]
       IN  ret' = [ret EXCEPT !.trend =
                      <<[divisors |-> trendpulse_divisors(ha_df),
                         result   |-> trendpulse_analyze(ha_df, "STANDARD")]>>]
    /\ step' = "done"
    /\ UNCHANGED arg
    /\ UNCHANGED pipeVars

NextStoch ==
    \/ StochCalculate
    \/ StochAnalyzeCoin
    \/ StochDivisors
    \/ StochTrendPulse

SpecStoch == InitStoch /\ [][NextStoch]_vars

\* C26: calculate gives None for a frame of fewer than 44 candles, and for
\* any longer frame a result whose current K and D are the K and D series at
\* the closed candle (iloc[-2]); a coin whose StochRSI result is None gets no
\* confirmed signal.
C26_StochRSIClosedCandle ==
    /\ ret.stochrsi_data # <<>> =>
          LET n == Len(arg.df)
              r == ret.stochrsi_data[1]
          IN  IF n < 44 THEN r = <<>>
              ELSE /\ Len(r) = 1
                   /\ r[1].current_k = r[1].stoch_rsi_k[n - 1]
                   /\ r[1].current_d = r[1].stoch_rsi_d[n - 1]
    /\ (ret.stochrsi_data # <<>> /\ ret.coin # <<>> /\ ret.stochrsi_data[1] = <<>>) =>
          ret.coin[1] = <<>>

\* C26 witness: a frame of 44 candles with gains and losses, whose K differs
\* between the closed and the in-progress candle, gave the closed candle's
\* K, which confirmed the coin's signal
C26_Witness ==
    /\ ret.stochrsi_data # <<>>
    /\ arg.df[2].Close < arg.df[1].Close
    /\ arg.df[3].Close > arg.df[2].Close
    /\ ret.coin # <<>>
    /\ Len(arg.df) = 44
    /\ Len(ret.stochrsi_data[1]) = 1
    /\ ret.stochrsi_data[1][1].stoch_rsi_k[44] # ret.stochrsi_data[1][1].stoch_rsi_k[43]
    /\ ret.coin[1] # <<>>
    /\ ret.coin[1][1].signal.stoch_rsi_k = ret.stochrsi_data[1][1].stoch_rsi_k[43]

\* C29: no divisor of either indicator is zero: the average loss and the RSI
\* range after their replacement, 1 + RS, and 0.015 * dev; and a flat series
\* gives a K/D result and a TrendPulse 'no signal' like any other.
C29_NoZeroDivisor ==
    /\ ret.divisors # <<>> =>
          LET dv == ret.divisors[1]
          IN  /\ \A i \in DOMAIN dv.avg_loss : dv.avg_loss[i] # 0
              /\ \A i \in DOMAIN dv.one_plus_rs : dv.one_plus_rs[i] # 0
              /\ \A i \in DOMAIN dv.rsi_range : dv.rsi_range[i] # 0
    /\ ret.trend # <<>> =>
          \A i \in DOMAIN ret.trend[1].divisors : ret.trend[1].divisors[i] # 0
    /\ (\A i \in DOMAIN arg.df : arg.df[i].Close = arg.df[1].Close) =>
          /\ (ret.stochrsi_data # <<>> /\ Len(arg.df) >= 44) =>
                /\ Len(ret.stochrsi_data[1]) = 1
                /\ ret.stochrsi_data[1][1].current_k = 0
                /\ ret.stochrsi_data[1][1].current_d = 0
          /\ ret.trend # <<>> =>
                /\ ~ret.trend[1].result.has_signal
                /\ ret.trend[1].result.signal_type = "none"

\* C29 witness: a flat frame of 44 candles, whose average loss, RSI range
\* and dev are all 0 before their replacement, went through calculate and
\* through TrendPulse
C29_Witness ==
    /\ Len(arg.df) = 44
    /\ \A i \in DOMAIN arg.df : arg.df[i].Close = arg.df[1].Close
    /\ ret.stochrsi_data # <<>>
    /\ Len(ret.stochrsi_data[1]) = 1
    /\ ret.divisors # <<>>
    /\ 44 \in DOMAIN ret.divisors[1].avg_loss
    /\ ret.trend # <<>>
    /\ ret.trend[1].result.wt1 = 0

(***************************************************************************)
(* SpecOpen: one iteration of process_signals' loop on a candidate whose   *)
(* fingerprint already has a record in the cache, the record being sound,  *)
(* without its 'timestamp' entry, or with a timestamp text that            *)
(* fromisoformat rejects.  load_cache lets no such record in and mark_sent *)
(* writes none, so the cache is set up by hand here, as a caller of the    *)
(* class could.                                                            *)
(***************************************************************************)

\* a 'timestamp' text that datetime.fromisoformat rejects
Unparsable == -1

\* datetime.fromisoformat(record['timestamp']): <<seconds>>, or <<>> when
\* the lookup or the parse raises
fromisoformat(record) ==
    IF "timestamp" \notin DOMAIN record THEN <<>>
    ELSE IF record.timestamp = Unparsable THEN <<>>
    ELSE <<record.timestamp>>

\* an except branch that suppresses the signal
is_duplicate_fails_closed(c, coin, signal, t) ==
    LET cache_key == create_cache_key(coin, signal)
    IN  IF cache_key \in DOMAIN c /\ fromisoformat(c[cache_key]) = <<>>
        THEN [dup |-> TRUE, cache |-> c, raised |-> TRUE]
        ELSE [dup    |-> is_duplicate(c, coin, signal, t).dup,
              cache  |-> is_duplicate(c, coin, signal, t).cache,
              raised |-> FALSE]

\* is_duplicate with its try/except: the answer, the cache as the call
\* leaves it, and whether the except branch was taken
is_duplicate_try(c, coin, signal, t) ==
    LET cache_key == create_cache_key(coin, signal)
    IN  IF cache_key \in DOMAIN c /\ fromisoformat(c[cache_key]) = <<>>
        THEN [dup |-> FALSE, cache |-> c, raised |-> TRUE]
        ELSE [dup    |-> is_duplicate(c, coin, signal, t).dup,
              cache  |-> is_duplicate(c, coin, signal, t).cache,
              raised |-> FALSE]

OpenStart == 13 * Hour

OpenCandidates ==
    {KeyCase(sym, ty, 0, wt, <<1504, 1200>>, 12340) :
        sym \in {"AAA", "BBB"}, ty \in {"BUY", "SELL"},
        wt \in {<<-6204, -6300>>, <<-6000, -6000>>, <<-5000, -5000>>}}

OpenStored == {"none", "fresh", "expired", "missing", "unparsable"}

\* the record the cache holds for the candidate's fingerprint
stored_record(kind, coin, signal) ==
    IF kind = "missing"
    THEN [symbol |-> coin.symbol, signal_type |-> signal.signal_type]
    ELSE cache_record(coin, signal,
                      IF kind = "unparsable" THEN Unparsable
                      ELSE IF kind = "fresh" THEN OpenStart - Hour
                      ELSE 0)

\* a sound record of another fingerprint
OpenNeighbour == KeyCase("CCC", "BUY", 0, <<-6204, -6300>>, <<1504, 1200>>, 12340)

stored_cache(a) ==
    LET own == IF a.stored = "none" THEN EmptyDict
               ELSE Put(EmptyDict, create_cache_key(a.cand.coin, a.cand.signal),
                        stored_record(a.stored, a.cand.coin, a.cand.signal))
    IN  IF a.neighbour
        THEN Put(own, create_cache_key(OpenNeighbour.coin, OpenNeighbour.signal),
                 cache_record(OpenNeighbour.coin, OpenNeighbour.signal,
                              OpenStart - Hour))
        ELSE own

InitOpen ==
    /\ now = OpenStart
    /\ arg \in [cand : OpenCandidates, stored : OpenStored, neighbour : BOOLEAN]
    /\ cache = stored_cache(arg)
    /\ disk = EmptyDict
    /\ others = 0
    /\ diskOthers = 0
    /\ phase = "off"
    /\ results = <<>>
    /\ idx = 1
    /\ alerts_sent = 0
    /\ outcome = "none"
    /\ sentAt = EmptyDict
    /\ ret = None
    /\ step = "input"

\* if self.deduplicator.is_duplicate(coin, signal)
OpenCheck ==
    /\ step = "input"
    /\ LET chk == is_duplicate_try(cache, arg.cand.coin, arg.cand.signal, now)
       IN  /\ cache' = chk.cache
           /\ ret' = [dup |-> chk.dup, raised |-> chk.raised, before |-> cache]
    /\ step' = "checked"
    /\ UNCHANGED <<now, disk, others, diskOthers, phase, results, idx,
                   alerts_sent, outcome, sentAt, arg>>

\* the duplicate branch: continue
OpenSkip ==
    /\ step = "checked"
    /\ ret.dup
    /\ step' = "skipped"
    /\ outcome' = "dup"
    /\ UNCHANGED <<now, cache, disk, others, diskOthers, phase, results, idx,
                   alerts_sent, sentAt, arg, ret>>

\* send_alert returns success: mark_sent and the counter
OpenSendOk ==
    /\ step = "checked"
    /\ ~ret.dup
    /\ LET st == mark_sent(store, arg.cand.coin, arg.cand.signal, now)
       IN  /\ cache' = st.cache
           /\ disk' = st.disk
           /\ diskOthers' = st.diskOthers
    /\ alerts_sent' = alerts_sent + 1
    /\ step' = "sent"
    /\ outcome' = "sent"
    /\ UNCHANGED <<now, others, phase, results, idx, sentAt, arg, ret>>

\* send_alert returns failure
OpenSendFails ==
    /\ step = "checked"
    /\ ~ret.dup
    /\ step' = "failed"
    /\ outcome' = "failed"
    /\ UNCHANGED <<now, cache, disk, others, diskOthers, phase, results, idx,
                   alerts_sent, sentAt, arg, ret>>

NextOpen ==
    \/ OpenCheck
    \/ OpenSkip
    \/ OpenSendOk
    \/ OpenSendFails

SpecOpen == InitOpen /\ [][NextOpen]_vars

\* C33: the dedup check fails open.  When the lookup of the stored record's
\* timestamp raises (the entry is missing or its text cannot be parsed),
\* is_duplicate answers false and the cache is as it was before the call;
\* the iteration is never skipped as a duplicate, it goes on to send_alert.
C33_FailsOpen ==
    (step # "input" /\ ret.raised) =>
       /\ ~ret.dup
       /\ step # "skipped"
       /\ step \in {"checked", "failed"} => cache = ret.before
       /\ ret.before = stored_cache(arg)

\* C33 witness: next to a sound neighbour, a record with an unparsable
\* timestamp made the lookup raise, the alert went out and mark_sent
\* replaced the record
C33_Witness ==
    /\ step = "sent"
    /\ ret.raised
    /\ arg.stored = "unparsable"
    /\ arg.neighbour
    /\ alerts_sent = 1
    /\ cache[create_cache_key(arg.cand.coin, arg.cand.signal)].timestamp = now

(***************************************************************************)
(* SpecSource: get_multi_timeframe_data when the exchanges differ in what  *)
(* they can serve.  serves tells, for each exchange and timeframe, whether *)
(* fetch_ohlcv_with_retry on that exchange gives a frame.                  *)
(***************************************************************************)

\* the resolved exchange, else the next listed one that serves the timeframe
get_multi_timeframe_data_fallback(exchanges, serves, symbol, timeframes) ==
    LET found == {i \in DOMAIN exchange_priority :
                     find_symbol_on_exchange(exchanges, exchange_priority[i], symbol) # <<>>}
    IN  IF found = {}
        THEN [data |-> EmptyDict, working |-> <<>>, asked |-> {}]
        ELSE LET able(tf) == {i \in found : serves[exchange_priority[i]][tf]}
                 got == {tf \in DOMAIN timeframes : able(tf) # {}}
                 from(tf) == exchange_priority[SetMin(able(tf))]
             IN  [data    |-> [tf \in got |->
                                 ohlcv_frame(from(tf),
                                             find_symbol_on_exchange(exchanges, from(tf), symbol)[1],
                                             tf, timeframes[tf])],
                  working |-> <<[exchange |-> exchange_priority[SetMin(found)],
                                 symbol |-> find_symbol_on_exchange(
                                               exchanges, exchange_priority[SetMin(found)],
                                               symbol)[1]]>>,
                  asked   |-> {<<exchange_priority[i], tf>> :
                                  i \in found, tf \in DOMAIN timeframes}]

\* data is the dict returned; working is the exchange and pair chosen;
\* asked is the set of (exchange, timeframe) for which
\* fetch_ohlcv_with_retry was called
get_multi_timeframe_data_sources(exchanges, serves, symbol, timeframes) ==
    LET found == {i \in DOMAIN exchange_priority :
                     find_symbol_on_exchange(exchanges, exchange_priority[i], symbol) # <<>>}
    IN  IF found = {}
        THEN [data |-> EmptyDict, working |-> <<>>, asked |-> {}]
        ELSE LET working_exchange == exchange_priority[SetMin(found)]
                 working_symbol ==
                     find_symbol_on_exchange(exchanges, working_exchange, symbol)[1]
                 got == {tf \in DOMAIN timeframes : serves[working_exchange][tf]}
             IN  [data    |-> [tf \in got |->
                                 ohlcv_frame(working_exchange, working_symbol,
                                             tf, timeframes[tf])],
                  working |-> <<[exchange |-> working_exchange,
                                 symbol |-> working_symbol]>>,
                  asked   |-> {<<working_exchange, tf>> : tf \in DOMAIN timeframes}]

SourceListings ==
    { EmptyDict,
      Entry("AAA", "/USDT", "active"),
      Entry("AAA", "/USDT", "inactive") }

\* every exchange initialized, or all but the first
SourceUp == {ExchangeNames, ExchangeNames \ {"bingx"}}

\* bybit serves everything; the others any combination of the timeframes
SourceServes ==
    {s \in [ExchangeNames -> [DOMAIN market_timeframes -> BOOLEAN]] :
        \A tf \in DOMAIN market_timeframes : s["bybit"][tf]}

SourceWorlds ==
    { [exchanges |-> [e \in up |-> m[e]], serves |-> s] :
        m \in {l \in [ExchangeNames -> SourceListings] : l["bybit"] # EmptyDict},
        up \in SourceUp,
        s \in SourceServes }

InitSource ==
    /\ IdlePipe
    /\ arg \in SourceWorlds
    /\ ret = None
    /\ step = "input"

\* exchange_manager.get_multi_timeframe_data(symbol, timeframes)
SourceGetData ==
    /\ step = "input"
    /\ ret' = get_multi_timeframe_data_sources(arg.exchanges, arg.serves,
                                               high_risk_coin.symbol, market_timeframes)
    /\ step' = "fetched"
    /\ UNCHANGED arg

NextSource == SourceGetData /\ UNCHANGED pipeVars

SpecSource == InitSource /\ [][NextSource]_vars

\* exchange e is up, lists an active variant of the symbol and would serve
\* timeframe tf
CouldServe(e, tf) ==
    /\ find_symbol_on_exchange(arg.exchanges, e, high_risk_coin.symbol) # <<>>
    /\ arg.serves[e][tf]

\* C34: there is no cross-source fallback after resolution.  Every fetch is
\* made on the one resolved exchange and every frame returned comes from it
\* with the resolved pair; a timeframe is in the result exactly when that
\* exchange served it, whatever the exchanges after it could serve.
C34_NoFallback ==
    (step = "fetched" /\ ret.working # <<>>) =>
       LET w == ret.working[1]
       IN  /\ \A a \in ret.asked : a[1] = w.exchange
           /\ \A tf \in DOMAIN ret.data :
                 /\ ret.data[tf].exchange = w.exchange
                 /\ ret.data[tf].symbol = w.symbol
           /\ \A tf \in DOMAIN market_timeframes :
                 tf \in DOMAIN ret.data <=> arg.serves[w.exchange][tf]

\* C34 witness: binance was resolved and failed on the 2h frame, okx lists
\* the symbol and would have served it, and the 2h frame is missing
C34_Witness ==
    /\ step = "fetched"
    /\ ret.working # <<>>
    /\ ret.working[1].exchange = "binance"
    /\ "bingx" \in DOMAIN arg.exchanges
    /\ CouldServe("okx", "2h")
    /\ ~arg.serves["binance"]["2h"]
    /\ DOMAIN ret.data = {"1h"}

(***************************************************************************)
(* SpecSched: the scheduled mode (main_scheduled.py).  The class           *)
(* GitHubActionsAnalytics defines four methods and inherits none; a call   *)
(* of any other attribute of self raises AttributeError, which the         *)
(* except clause enclosing the call catches.  A blocked_coins.txt is its   *)
(* lines; str.strip and str.upper are given over the texts in use.         *)
(***************************************************************************)

\* the methods of class GitHubActionsAnalytics
GitHubActionsAnalytics == {"__init__", "analyze_coin", "process_signals", "run"}

\* str.upper
upper(text) ==
    CASE text = "aaa" -> "AAA"
      [] text = "bbb" -> "BBB"
      [] text = "ccc" -> "CCC"
      [] text = "# aaa" -> "# AAA"
      [] OTHER -> text

\* str.strip
strip(text) ==
    CASE text = " bbb " -> "bbb"
      [] text = " " -> ""
      [] OTHER -> text

\* str.startswith('#')
starts_with_hash(text) == text \in {"# AAA", "# aaa", "#"}

\* file: [kind, lines]; kind "absent" (the template is written), "unreadable"
\* (open or the read raises) or "text"
load_blocked_coins(file) ==
    IF file.kind = "absent" THEN {}
    ELSE IF file.kind = "unreadable" THEN {}
    ELSE {upper(strip(file.lines[i])) : i \in
             {j \in DOMAIN file.lines :
                 /\ upper(strip(file.lines[j])) # ""
                 /\ ~starts_with_hash(upper(strip(file.lines[j])))}}

\* analyze_coin of the scheduled mode with no blocked-coins check
analyze_coin_scheduled_unblocked(blocked_coins, coin, tier, md) ==
    IF "fetch_market_data" \notin GitHubActionsAnalytics
    THEN [result |-> <<>>, log |-> "Error", stages |-> <<>>]
    ELSE IF ~md.data THEN [result |-> <<>>, log |-> "No data", stages |-> <<"fetch">>]
    ELSE [result |-> analyze_coin(coin, tier, md), log |-> "analysed",
          stages |-> analyze_coin_stages(<<md>>, tier, md)]

\* the result (a one-element list, empty for None), the kind of the log
\* text, and the stages entered
analyze_coin_scheduled(blocked_coins, coin, tier, md) ==
    IF upper(coin.symbol) \in blocked_coins
    THEN [result |-> <<>>, log |-> "BLOCKED", stages |-> <<>>]
    ELSE IF "fetch_market_data" \notin GitHubActionsAnalytics
    THEN [result |-> <<>>, log |-> "Error", stages |-> <<>>]
    ELSE IF ~md.data
    THEN [result |-> <<>>, log |-> "No data", stages |-> <<"fetch">>]
    ELSE IF ~md.ha
    THEN [result |-> <<>>, log |-> "HA failed", stages |-> <<"fetch", "convert">>]
    ELSE LET tp_signal == trendpulse(md, tier)
         IN  IF ~tp_signal.has_signal
             THEN [result |-> <<>>, log |-> "No TrendPulse",
                   stages |-> <<"fetch", "convert", "trendpulse">>]
             ELSE IF ~md.stoch
             THEN [result |-> <<>>, log |-> "StochRSI failed",
                   stages |-> <<"fetch", "convert", "trendpulse", "stochrsi">>]
             ELSE IF ~confirm_scheduled(tp_signal.signal_type, md.k, md.d)
             THEN [result |-> <<>>, log |-> "No StochRSI confirmation",
                   stages |-> <<"fetch", "convert", "trendpulse", "stochrsi">>]
             ELSE [result |-> confirmed_result(coin, tier, md, tp_signal),
                   log    |-> "CONFIRMED",
                   stages |-> <<"fetch", "convert", "trendpulse", "stochrsi">>]

\* run(): the value returned and the symbols an alert was attempted for
run_scheduled(blocked_coins, coin, tier, md) ==
    IF "get_coins" \notin GitHubActionsAnalytics
    THEN [value |-> -1, attempted |-> {}]
    ELSE LET confirmed == analyze_coin_scheduled(blocked_coins, coin, tier, md).result
         IN  [value     |-> Len(confirmed),
              attempted |-> {confirmed[i].coin.symbol : i \in DOMAIN confirmed}]

BlockedLines == {"AAA", "aaa", " bbb ", "# aaa", " "}

BlockedFiles ==
    {[kind |-> "absent", lines |-> <<>>], [kind |-> "unreadable", lines |-> <<"AAA">>]}
    \cup {[kind |-> "text", lines |-> l] :
             l \in {<<>>} \cup {<<a>> : a \in BlockedLines}
                   \cup {<<a, b>> : a \in BlockedLines, b \in BlockedLines}}

SchedSymbols == {"aaa", "BBB", "ccc"}

InitSched ==
    /\ IdlePipe
    /\ arg \in [file : BlockedFiles,
                coin : {[high_risk_coin EXCEPT !.symbol = s] : s \in SchedSymbols},
                tier : Tiers,
                md   : HighRiskObservations \cup StandardObservations]
    /\ ret = None
    /\ step = "input"

\* __init__: self.blocked_coins = load_blocked_coins()
SchedLoad ==
    /\ step = "input"
    /\ ret' = [blocked_coins |-> load_blocked_coins(arg.file)]
    /\ step' = "loaded"
    /\ UNCHANGED arg

\* analyze_coin(coin, tier) of the scheduled mode, and of the looping mode
\* on the same coin and series
SchedAnalyzeCoin ==
    /\ step = "loaded"
    /\ ret' = [blocked_coins |-> ret.blocked_coins,
               scheduled |-> analyze_coin_scheduled(ret.blocked_coins, arg.coin,
                                                    arg.tier, arg.md),
               looping   |-> analyze_coin(arg.coin, arg.tier, arg.md)]
    /\ step' = "analysed"
    /\ UNCHANGED arg

\* run()
SchedRun ==
    /\ step = "loaded"
    /\ ret' = [blocked_coins |-> ret.blocked_coins,
               run |-> run_scheduled(ret.blocked_coins, arg.coin, arg.tier, arg.md)]
    /\ step' = "ran"
    /\ UNCHANGED arg

NextSched ==
    \/ (SchedLoad /\ UNCHANGED pipeVars)
    \/ (SchedAnalyzeCoin /\ UNCHANGED pipeVars)
    \/ (SchedRun /\ UNCHANGED pipeVars)

SpecSched == InitSched /\ [][NextSched]_vars

\* two analyze_coin results are both none, or both a signal of the same
\* direction, oscillator values and candle
SameDecision(x, y) ==
    /\ Len(x) = Len(y)
    /\ Len(x) = 1 =>
          /\ x[1].signal.signal_type = y[1].signal.signal_type
          /\ x[1].signal.wt1 = y[1].signal.wt1
          /\ x[1].signal.wt2 = y[1].signal.wt2
          /\ x[1].signal.stoch_rsi_k = y[1].signal.stoch_rsi_k
          /\ x[1].signal.stoch_rsi_d = y[1].signal.stoch_rsi_d
          /\ x[1].signal.candle_timestamp = y[1].signal.candle_timestamp

\* C36: the scheduled mode decides as the looping mode does: for a coin
\* that is not blocked and series that were fetched, both analyze_coin
\* return none or both return the same confirmed signal; and run() returns
\* a number of alerts, never a negative value, when the data are there.
C36_SameDecision ==
    /\ (step = "analysed" /\ upper(arg.coin.symbol) \notin ret.blocked_coins
           /\ arg.md.data) =>
          SameDecision(ret.scheduled.result, ret.looping)
    /\ (step = "ran" /\ arg.md.data) => ret.run.value >= 0

\* C39: a blocked asset is rejected before any market-data fetch.  For a
\* coin whose uppercased symbol is in the blocked set, analyze_coin of the
\* scheduled mode returns no result with the BLOCKED log and has entered no
\* stage, and run() attempts no alert for it.
C39_BlockedBeforeFetch ==
    (step \in {"analysed", "ran"} /\ upper(arg.coin.symbol) \in ret.blocked_coins) =>
       /\ step = "analysed" =>
             /\ ret.scheduled.result = <<>>
             /\ ret.scheduled.log = "BLOCKED"
             /\ ret.scheduled.stages = <<>>
       /\ step = "ran" => arg.coin.symbol \notin ret.run.attempted

\* C39 witness: the file names the coin in upper case after a comment line,
\* the coin's symbol is in lower case, its series would confirm a BUY in the
\* looping mode, and the scheduled analyze_coin rejected it as blocked
C39_Witness ==
    /\ step = "analysed"
    /\ arg.file.kind = "text"
    /\ arg.file.lines = <<"# aaa", "AAA">>
    /\ arg.coin.symbol = "aaa"
    /\ ret.blocked_coins = {"AAA"}
    /\ Len(ret.looping) = 1
    /\ ret.scheduled.log = "BLOCKED"
    /\ ret.scheduled.result = <<>>

====
